---- MODULE Spec2Model ----
(***************************************************************************)
(* A model of the fetch_site pipeline of context-mcp (tools/fetchSite.ts): *)
(* URL safety validation, robots check, page fetch through the HTTP        *)
(* client, the manifest cache and the batch entry point.                   *)
(* Further parts: the images of a page, the library matching of            *)
(* tools/fetchDocs.ts (buildMatchResult), and the store list cache and the *)
(* ask_docs_agent handler of index.ts and tools/askDocsAgent.ts.           *)
(*                                                                         *)
(* Texts are sequences of segments, so that concatenation is \o and two    *)
(* texts are byte-identical exactly when the sequences are equal.          *)
(***************************************************************************)
EXTENDS Integers, Sequences, FiniteSets, TLC

(***************************************************************************)
(* Bounds of the model.                                                    *)
(***************************************************************************)
\* fetchSite calls in one run
MaxCalls == 2
\* longest chain of redirects the servers answer with
MaxHops == 4
\* most addresses one DNS answer holds
MaxAddrs == 2
\* markdown lengths tried on each side of CHARACTER_LIMIT
TruncSpan == 25

(***************************************************************************)
(* Program constants.                                                      *)
(***************************************************************************)
CHARACTER_LIMIT == 25000
MAX_REDIRECTS == 3
MAX_HTML_BYTES == 2000000
MAX_BATCH == 10

(***************************************************************************)
(* URLs.  new URL(raw) is a table over the URL strings the model uses.     *)
(* A string the code cuts or rewrites (a title, a path name, a directory   *)
(* name) is a sequence of one-character strings.                           *)
(***************************************************************************)
U_A == "https://a.example/post"
U_B == "https://b.example/doc"
U_INT == "http://intra.example/admin"
\* URLs for the directory names: no path, a file name, a dot file, a path of signs,
\* a path that ends in a slash
U_ROOT == "https://a.example/"
U_FILE == "https://a.example/docs/Guide%20One.html"
U_DOT == "https://a.example/.env"
U_SIGNS == "https://a.example/x/~_~"
U_SLASH == "https://a.example/a.b/v1.2/"

ValidatorUrls ==
    { U_A, U_INT, "http://localhost/x", "http://127.0.0.1/x", "http://[::1]/x",
      "ftp://a.example/f", "file:///etc/passwd", "not a url" }

\* new URL(raw): ok = FALSE when the constructor throws
ParseUrl(raw) ==
    CASE raw = U_A   -> [ok |-> TRUE, protocol |-> "https:", hostname |-> "a.example",
                         origin |-> "https://a.example",
                         pathname |-> <<"/", "p", "o", "s", "t">>]
      [] raw = U_B   -> [ok |-> TRUE, protocol |-> "https:", hostname |-> "b.example",
                         origin |-> "https://b.example",
                         pathname |-> <<"/", "d", "o", "c">>]
      [] raw = U_INT -> [ok |-> TRUE, protocol |-> "http:", hostname |-> "intra.example",
                         origin |-> "http://intra.example",
                         pathname |-> <<"/", "a", "d", "m", "i", "n">>]
      [] raw = "http://localhost/x" ->
                        [ok |-> TRUE, protocol |-> "http:", hostname |-> "localhost",
                         origin |-> "http://localhost", pathname |-> <<"/", "x">>]
      [] raw = "http://127.0.0.1/x" ->
                        [ok |-> TRUE, protocol |-> "http:", hostname |-> "127.0.0.1",
                         origin |-> "http://127.0.0.1", pathname |-> <<"/", "x">>]
      \* the hostname of an IPv6 literal keeps its brackets
      [] raw = "http://[::1]/x" ->
                        [ok |-> TRUE, protocol |-> "http:", hostname |-> "[::1]",
                         origin |-> "http://[::1]", pathname |-> <<"/", "x">>]
      [] raw = "ftp://a.example/f" ->
                        [ok |-> TRUE, protocol |-> "ftp:", hostname |-> "a.example",
                         origin |-> "ftp://a.example", pathname |-> <<"/", "f">>]
      [] raw = "file:///etc/passwd" ->
                        [ok |-> TRUE, protocol |-> "file:", hostname |-> "",
                         origin |-> "null",
                         pathname |-> <<"/", "e", "t", "c", "/", "p", "a", "s", "s", "w", "d">>]
      [] raw = U_ROOT -> [ok |-> TRUE, protocol |-> "https:", hostname |-> "a.example",
                          origin |-> "https://a.example", pathname |-> <<"/">>]
      [] raw = U_FILE -> [ok |-> TRUE, protocol |-> "https:", hostname |-> "a.example",
                          origin |-> "https://a.example",
                          pathname |-> <<"/", "d", "o", "c", "s", "/", "G", "u", "i", "d",
                                         "e", "%", "2", "0", "O", "n", "e", ".", "h", "t",
                                         "m", "l">>]
      [] raw = U_DOT  -> [ok |-> TRUE, protocol |-> "https:", hostname |-> "a.example",
                          origin |-> "https://a.example",
                          pathname |-> <<"/", ".", "e", "n", "v">>]
      [] raw = U_SIGNS -> [ok |-> TRUE, protocol |-> "https:", hostname |-> "a.example",
                           origin |-> "https://a.example",
                           pathname |-> <<"/", "x", "/", "~", "_", "~">>]
      [] raw = U_SLASH -> [ok |-> TRUE, protocol |-> "https:", hostname |-> "a.example",
                           origin |-> "https://a.example",
                           pathname |-> <<"/", "a", ".", "b", "/", "v", "1", ".", "2", "/">>]
      [] OTHER       -> [ok |-> FALSE, protocol |-> "", hostname |-> "", origin |-> "",
                         pathname |-> <<>>]

(***************************************************************************)
(* IP addresses as dns.lookup returns them: family 4 with its four octets, *)
(* family 6 with its text.                                                 *)
(***************************************************************************)
V4(a, b, c, d) == [family |-> 4, parts |-> <<a, b, c, d>>, text |-> ""]
V6(t) == [family |-> 6, parts |-> <<>>, text |-> t]

AddrPool ==
    { V4(10, 1, 2, 3), V4(172, 16, 0, 1), V4(172, 31, 255, 254), V4(172, 15, 0, 1),
      V4(172, 32, 0, 1), V4(192, 168, 1, 1), V4(192, 167, 1, 1), V4(127, 0, 0, 2),
      V4(169, 254, 169, 254), V4(169, 253, 1, 1), V4(93, 184, 216, 34), V4(8, 8, 8, 8),
      V6("::1"), V6("2001:db8::1") }

\* Number(p) of a piece that is no decimal number
NaN == 0 - 1

\* ip.split(".").map(Number): an IPv6 text without dots is one piece, not a number
SplitDotNumbers(ip) == IF ip.family = 4 THEN ip.parts ELSE <<NaN>>

isPrivateIP(ip) ==
    LET parts == SplitDotNumbers(ip) IN
    IF ip.family \notin {4, 6} THEN FALSE
    ELSE \/ parts[1] = 10
         \/ (parts[1] = 172 /\ parts[2] >= 16 /\ parts[2] <= 31)
         \/ (parts[1] = 192 /\ parts[2] = 168)
         \/ parts[1] = 127
         \/ (parts[1] = 169 /\ parts[2] = 254)

\* Outcomes of validateUrlSafety: "ok" (returns) or the error it throws.
E_INVALID == "Invalid URL"
E_SCHEME == "Only http:// and https:// URLs are allowed"
E_LOCALHOST == "Access to localhost is blocked by SSRF guard"
E_PRIVATE == "Access to private IP is blocked by SSRF guard"
E_DNS == "getaddrinfo ENOTFOUND"

\* A DNS answer: [ok |-> TRUE, addrs |-> set of addresses] or a failed lookup.
DnsFail == [ok |-> FALSE, addrs |-> {}]
DnsOk(addrs) == [ok |-> TRUE, addrs |-> addrs]

validateUrlSafety(disable, rawUrl, dns) ==
    LET url == ParseUrl(rawUrl) IN
    IF disable THEN "ok"
    ELSE IF ~url.ok THEN E_INVALID
    ELSE IF url.protocol # "http:" /\ url.protocol # "https:" THEN E_SCHEME
    ELSE IF url.hostname \in {"localhost", "127.0.0.1", "::1"} THEN E_LOCALHOST
    ELSE IF ~dns.ok THEN E_DNS
    ELSE IF \E addr \in dns.addrs : isPrivateIP(addr) THEN E_PRIVATE
    ELSE "ok"

(***************************************************************************)
(* Character strings: sanitizeDirname and extractDirnameFromUrl.           *)
(***************************************************************************)
UpperChars == <<"A", "B", "C", "D", "E", "F", "G", "H", "I", "J", "K", "L", "M",
                "N", "O", "P", "Q", "R", "S", "T", "U", "V", "W", "X", "Y", "Z">>
LowerChars == <<"a", "b", "c", "d", "e", "f", "g", "h", "i", "j", "k", "l", "m",
                "n", "o", "p", "q", "r", "s", "t", "u", "v", "w", "x", "y", "z">>
DigitChars == <<"0", "1", "2", "3", "4", "5", "6", "7", "8", "9">>

Range(f) == {f[i] : i \in DOMAIN f}

\* String.prototype.toLowerCase, one character
LowerChar(c) ==
    IF c \in Range(UpperChars)
    THEN LowerChars[CHOOSE i \in DOMAIN UpperChars : UpperChars[i] = c]
    ELSE c

toLowerCase(s) == [i \in 1..Len(s) |-> LowerChar(s[i])]

\* \s of a regular expression
IsSpace(c) == c \in {" ", "\t", "\n", "\r"}

RECURSIVE TrimStart(_)
TrimStart(s) == IF s # <<>> /\ IsSpace(Head(s)) THEN TrimStart(Tail(s)) ELSE s

RECURSIVE TrimEnd(_)
TrimEnd(s) ==
    IF s # <<>> /\ IsSpace(s[Len(s)]) THEN TrimEnd(SubSeq(s, 1, Len(s) - 1)) ELSE s

\* String.prototype.trim
trim(s) == TrimEnd(TrimStart(s))

\* replace(/\s+/g, "-"): every maximal run of white space becomes one hyphen
SpacesToHyphen(s) ==
    LET first == {k \in DOMAIN s : ~(IsSpace(s[k]) /\ k > 1 /\ IsSpace(s[k - 1]))}
        at(i) == CHOOSE k \in first : Cardinality({j \in first : j <= k}) = i
    IN  [i \in 1..Cardinality(first) |-> IF IsSpace(s[at(i)]) THEN "-" ELSE s[at(i)]]

\* the class that lets dots and slashes through
IsSlugChar_Dots(c) == c \in Range(LowerChars) \cup Range(DigitChars) \cup {"-", ".", "/"}

\* [a-z0-9-]
IsSlugChar(c) == c \in Range(LowerChars) \cup Range(DigitChars) \cup {"-"}

\* replace(/-+/g, "-")
CollapseHyphens(s) ==
    LET first == {k \in DOMAIN s : ~(s[k] = "-" /\ k > 1 /\ s[k - 1] = "-")}
        at(i) == CHOOSE k \in first : Cardinality({j \in first : j <= k}) = i
    IN  [i \in 1..Cardinality(first) |-> s[at(i)]]

\* replace(/^-|-$/g, ""): one hyphen off the front, one off the end
StripEdgeHyphen(s) ==
    LET a == IF s # <<>> /\ Head(s) = "-" THEN Tail(s) ELSE s
    IN  IF a # <<>> /\ a[Len(a)] = "-" THEN SubSeq(a, 1, Len(a) - 1) ELSE a

\* String.prototype.slice(0, n)
Slice0(s, n) == SubSeq(s, 1, IF Len(s) < n THEN Len(s) ELSE n)

RECURSIVE Digits(_)
Digits(n) ==
    IF n < 10 THEN <<DigitChars[n + 1]>> ELSE Digits(n \div 10) \o <<DigitChars[(n % 10) + 1]>>

\* replace(/^\/+|\/+$/g, "")
RECURSIVE DropLeadingSlashes(_)
DropLeadingSlashes(s) ==
    IF s # <<>> /\ Head(s) = "/" THEN DropLeadingSlashes(Tail(s)) ELSE s

RECURSIVE DropTrailingSlashes(_)
DropTrailingSlashes(s) ==
    IF s # <<>> /\ s[Len(s)] = "/"
    THEN DropTrailingSlashes(SubSeq(s, 1, Len(s) - 1)) ELSE s

\* the last piece of split("/")
LastSegment(s) ==
    LET cuts == {i \in 1..Len(s) : s[i] = "/"}
        from == IF cuts = {} THEN 1 ELSE (CHOOSE i \in cuts : \A j \in cuts : j <= i) + 1
    IN  SubSeq(s, from, Len(s))

\* replace(/\.[^.]+$/, ""): cut the last dot and what follows it, when something follows
DropExtension(s) ==
    LET dots == {i \in 1..Len(s) : s[i] = "."}
        last == CHOOSE i \in dots : \A j \in dots : j <= i
    IN  IF dots = {} \/ last = Len(s) THEN s ELSE SubSeq(s, 1, last - 1)

\* url.hostname as characters
HostChars(raw) ==
    CASE raw \in {U_A, U_ROOT, U_FILE, U_DOT, U_SIGNS, U_SLASH} ->
             <<"a", ".", "e", "x", "a", "m", "p", "l", "e">>
      [] raw = U_B -> <<"b", ".", "e", "x", "a", "m", "p", "l", "e">>
      [] OTHER -> <<"i", "n", "t", "r", "a", ".", "e", "x", "a", "m", "p", "l", "e">>

extractDirnameFromUrl(rawUrl) ==
    LET url == ParseUrl(rawUrl)
        pathname == DropTrailingSlashes(DropLeadingSlashes(url.pathname))
        last == DropExtension(LastSegment(pathname))
    IN  IF ~url.ok THEN <<"u", "n", "t", "i", "t", "l", "e", "d">>
        ELSE IF pathname # <<>> THEN (IF last # <<>> THEN last ELSE HostChars(rawUrl))
        ELSE HostChars(rawUrl)

\* now is Date.now() at the call
sanitizeDirname(title, url, now) ==
    LET d0 == IF title # <<>> THEN title ELSE extractDirnameFromUrl(url)
        d1 == StripEdgeHyphen(CollapseHyphens(SelectSeq(
                  SpacesToHyphen(trim(toLowerCase(d0))), IsSlugChar)))
        d2 == IF Len(d1) > 100 THEN Slice0(d1, 100) ELSE d1
    IN  IF d2 = <<>> THEN <<"u", "n", "t", "i", "t", "l", "e", "d", "-">> \o Digits(now)
        ELSE d2

(***************************************************************************)
(* Texts.  A text is a sequence of segments; a segment is a fixed piece    *)
(* (k names it; s, a sequence of strings, and n carry what it              *)
(* interpolates) or the first n characters of a page's markdown or raw     *)
(* body.                                                                   *)
(***************************************************************************)
Seg(k, s, n) == [k |-> k, s |-> s, n |-> n]

Min(a, b) == IF a < b THEN a ELSE b

\* Pages the servers answer with: content type, whether the body matches the
\* <html / <!doctype html> patterns, the title and the length of the markdown
\* the extractor gets out of it, the length of the body.
H1 == [id |-> "H1", ctype |-> "text/html", looksHtml |-> TRUE,
       title |-> <<"H", "i", " ", "A">>, mdLen |-> 1200, bytes |-> 5000]
H2 == [id |-> "H2", ctype |-> "text/html; charset=utf-8", looksHtml |-> TRUE,
       title |-> <<"F", "A", "Q">>, mdLen |-> 30000, bytes |-> 90000]
J1 == [id |-> "J1", ctype |-> "application/json", looksHtml |-> FALSE,
       title |-> <<>>, mdLen |-> 0, bytes |-> 300]
\* a text file longer than CHARACTER_LIMIT
T1 == [id |-> "T1", ctype |-> "text/plain", looksHtml |-> FALSE,
       title |-> <<>>, mdLen |-> 0, bytes |-> 40000]
Bodies == {H1, H2, J1, T1}
\* a page whose title is "Error fetching"
E1 == [id |-> "E1", ctype |-> "text/html", looksHtml |-> TRUE,
       title |-> <<"E", "r", "r", "o", "r", " ", "f", "e", "t", "c", "h", "i", "n", "g">>,
       mdLen |-> 800, bytes |-> 4000]
\* a page with two img elements that have a src
P2 == [id |-> "P2", ctype |-> "text/html", looksHtml |-> TRUE,
       title |-> <<"P", "i", "c", "s">>, mdLen |-> 700, bytes |-> 8000]
\* extractContent(html, url).images: the filename of each
ImgNames(body) == IF body.id = "P2" THEN <<"a.png", "b.png">> ELSE <<>>
ImgCount(body) == Len(ImgNames(body))
\* a page over MAX_HTML_BYTES
BIG == [id |-> "BIG", ctype |-> "text/html", looksHtml |-> TRUE,
        title |-> <<"B", "i", "g">>, mdLen |-> 900, bytes |-> 3000000]
\* the body of a 3xx answer: empty, without a Content-Type
R0 == [id |-> "R0", ctype |-> "null", looksHtml |-> FALSE,
       title |-> <<>>, mdLen |-> 0, bytes |-> 0]

\* contentType.toLowerCase().includes("text/html")
IncludesTextHtml(ctype) == ctype \in {"text/html", "text/html; charset=utf-8"}

\* the classification that takes every body as HTML
isHtmlContent_Always(body) == TRUE

\* lines 306-309
isHtmlContent(body) ==
    IF body.ctype # "null" /\ IncludesTextHtml(body.ctype) THEN TRUE
    ELSE body.looksHtml

\* extractContent(html, url).markdown
Markdown(body) == <<Seg("md", <<body.id>>, body.mdLen)>>

RECURSIVE TextLen(_)
TextLen(t) == IF t = <<>> THEN 0 ELSE Head(t).n + TextLen(Tail(t))

\* lines 406-410: the truncation of the markdown to maxLength
\* the truncation taking a body of exactly maxLength characters as too long
Truncate_AtLimit(body, maxLength) ==
    IF body.mdLen >= maxLength
    THEN <<Seg("md", <<body.id>>, maxLength),
           Seg("[... Content truncated. n characters remaining ...]", <<>>,
               body.mdLen - maxLength)>>
    ELSE <<Seg("md", <<body.id>>, body.mdLen)>>

Truncate(body, maxLength) ==
    IF body.mdLen > maxLength
    THEN <<Seg("md", <<body.id>>, maxLength),
           Seg("[... Content truncated. n characters remaining ...]", <<>>,
               body.mdLen - maxLength)>>
    ELSE Markdown(body)

\* lines 393: the note and the raw body cut to maxLength
RawContent(body, maxLength) ==
    <<Seg("Content type cannot be converted to markdown. Raw content:", <<body.ctype>>, 0),
      Seg("raw", <<body.id>>, Min(body.bytes, maxLength))>>

ErrText(msg) == <<Seg("error", <<msg>>, 0)>>

generateFrontmatter(url, title, fetched) ==
    <<Seg("---", <<>>, 0), Seg("url:", <<url>>, 0), Seg("title:", title, 0),
      Seg("fetched:", <<>>, fetched), Seg("---", <<>>, 0), Seg("", <<>>, 0)>>

\* the digest of a text, kept abstract: the text it was computed from
generateContentHash(content) == content

(***************************************************************************)
(* robots.txt: a text is a sequence of lines, a line a field and a value   *)
(* as they stand before trimming and lower-casing.                         *)
(***************************************************************************)
RLine(f, v) == [field |-> f, value |-> v]

RobotsTexts ==
    { <<RLine("User-agent", "*"), RLine("Disallow", "/")>>,
      <<RLine("# policy", ""), RLine("user-agent", " * "), RLine("", ""),
        RLine("DISALLOW", " /")>>,
      <<RLine("User-agent", "*"), RLine("Disallow", "")>>,
      <<RLine("User-agent", "*"), RLine("Disallow", "/private")>>,
      <<RLine("User-agent", "BadBot"), RLine("Disallow", "/")>>,
      <<RLine("<html>not a robots file</html>", "")>> }

\* field.toLowerCase()
LowerField(f) ==
    CASE f \in {"User-agent", "user-agent", "USER-AGENT"} -> "user-agent"
      [] f \in {"Disallow", "disallow", "DISALLOW"} -> "disallow"
      [] OTHER -> f

\* value.trim()
TrimValue(v) ==
    CASE v \in {" * ", " *", "* "} -> "*"
      [] v \in {" /", "/ ", " / "} -> "/"
      [] OTHER -> v

\* lines 279-295: the loop over the lines; the result is disallowAll
RECURSIVE RobotsScan(_, _)
RobotsScan(lines, appliesToAll) ==
    IF lines = <<>> THEN FALSE
    ELSE LET line == Head(lines)
             fieldLower == LowerField(line.field)
             value == TrimValue(line.value)
         IN  IF line.field = "" \/ fieldLower = "# policy" THEN RobotsScan(Tail(lines), appliesToAll)
             ELSE IF fieldLower = "user-agent" THEN RobotsScan(Tail(lines), value = "*")
             ELSE IF fieldLower = "disallow" /\ appliesToAll /\ value = "/" THEN TRUE
             ELSE RobotsScan(Tail(lines), appliesToAll)

\* Answers to the robots.txt request
RobotsAnswers ==
    {[kind |-> "error", status |-> 0, text |-> <<>>],
     [kind |-> "timeout", status |-> 0, text |-> <<>>],
     [kind |-> "status", status |-> 404, text |-> <<>>],
     [kind |-> "status", status |-> 503, text |-> <<>>]}
    \cup {[kind |-> "status", status |-> 200, text |-> t] : t \in RobotsTexts}

\* lines 269-300, the body of the try: "return" or "throw"
RobotsTry(ans) ==
    IF ans.kind \in {"error", "timeout"} THEN "throw"
    \* validateStatus: (s) => s >= 200 && s < 500
    ELSE IF ~(ans.status >= 200 /\ ans.status < 500) THEN "throw"
    ELSE IF ans.status >= 400 THEN "return"
    ELSE IF RobotsScan(ans.text, FALSE) THEN "throw"
    ELSE "return"

\* checkRobotsTxt with a catch that throws again what the try threw
checkRobotsTxt_Rethrow(ans) == RobotsTry(ans)

\* lines 268-304: the catch swallows whatever the try throws
checkRobotsTxt(ans) == IF RobotsTry(ans) = "throw" THEN "return" ELSE "return"


(***************************************************************************)
(* The state.                                                              *)
(***************************************************************************)
VARIABLES
    guardOff,           \* DISABLE_SSRF_GUARD
    calls,              \* fetchSite calls made so far; the clock of the timestamps
    call,               \* the fetchSite call in progress or last answered
    pipe,               \* the processSingleUrl executions of the call, by index
    hist,               \* what each execution did so far (observation only)
    cacheManifest,      \* the module-level manifest object: its entries
    cacheManifestPath,  \* the module-level manifest path
    manifestFile,       \* manifest.json on disk
    files,              \* the CONTENT.md files on disk, by directory path
    reply,              \* what the last finished call returned, and for which URLs
    vIn, vOut,          \* the input and result of one validateUrlSafety call
    storeCache,         \* tools/askDocsAgent.ts: the module-level store cache, or null
    clock,              \* Date.now()
    gemini,             \* the Gemini service: its stores and the stores it was asked about
    ops                 \* the getStores and ask_docs_agent calls in progress, by slot

storeVars == <<storeCache, clock, gemini, ops>>

vars == <<guardOff, calls, call, pipe, hist, cacheManifest, cacheManifestPath,
          manifestFile, files, reply, vIn, vOut, storeVars>>

Urls == {U_A, U_B, U_INT}

\* Targets the servers redirect to
RedirectTargets == {U_A, U_INT}

\* dns.lookup(hostname, {all: true}) for the hosts of Urls
Resolve(rawUrl) ==
    CASE rawUrl = U_INT -> DnsOk({V4(10, 1, 2, 3)})
      [] rawUrl \in {U_A, U_B} -> DnsOk({V4(93, 184, 216, 34)})
      [] OTHER -> DnsFail

DEFAULT_CONTENT_DIR == "context"
ManifestPath == <<DEFAULT_CONTENT_DIR, "manifest.json">>
\* path.join(contentDir, dirname)
DirPath(dirname) == <<DEFAULT_CONTENT_DIR, dirname>>
\* path.join(dirPath, "images")
ImagesPath(dirname) == <<DEFAULT_CONTENT_DIR, dirname, "images">>

NoEntries == [u \in {} |-> <<>>]
PutEntry(m, u, e) == [x \in DOMAIN m \cup {u} |-> IF x = u THEN e ELSE m[x]]
PutFile(fs, path, text) == [x \in DOMAIN fs \cup {path} |-> IF x = path THEN text ELSE fs[x]]

\* manifest.json: absent, unparsable (cut short by a write that did not finish), or entries
FileAbsent == [st |-> "absent", entries |-> NoEntries]
FileCorrupt == [st |-> "corrupt", entries |-> NoEntries]
FileOk(m) == [st |-> "ok", entries |-> m]
FileUnreadable == [st |-> "unreadable", entries |-> NoEntries]

NoEntry == [directory |-> <<>>, title |-> <<>>, fetched |-> 0, contentPath |-> <<>>,
            contentHash |-> <<>>, imageCount |-> 0, charCount |-> 0]
NoBody == [id |-> "", ctype |-> "null", looksHtml |-> FALSE, title |-> <<>>,
           mdLen |-> 0, bytes |-> 0]
NoResult == [success |-> FALSE, message |-> <<>>, title |-> <<>>, contentPath |-> <<>>,
             fromCache |-> FALSE, imageCount |-> 0]

Untitled == <<"U", "n", "t", "i", "t", "l", "e", "d">>

NewPipe(url) ==
    [pc |-> "load", url |-> url, snap |-> FileAbsent, cached |-> NoEntry,
     currentUrl |-> "", redirects |-> 0, wire |-> "", content |-> <<>>, title |-> <<>>,
     dirname |-> <<>>, fetched |-> 0, imageCount |-> 0, kept |-> <<>>,
     toWrite |-> NoEntries,
     result |-> NoResult]

NewHist ==
    [http |-> {}, hops |-> 0, accepted |-> {}, rejected |-> {},
     robots |-> "none", threwAt |-> "none", sawHit |-> FALSE, body |-> NoBody,
     imgs |-> <<>>, faults |-> {},
     stored |-> NoEntry]

\* An HTTP request: what it asks for, and whether validateUrlSafety had accepted its
\* URL in this execution when it went out
Req(kind, url, validated) == [kind |-> kind, validated |-> validated]

\* the catch of processSingleUrl, lines 471-477; the locals of fetchWithLimits are gone
Fail(p, msg) ==
    [p EXCEPT !.pc = "done", !.currentUrl = "", !.redirects = 0, !.wire = "",
              !.result = [NoResult EXCEPT !.message = ErrText(msg)]]

Running(i) == call.state = "running" /\ i \in DOMAIN pipe

\* the axios.get calls of fetchWithLimits and the requests the client made for them
NReq(h) == IF \E r \in h.http : r.kind = "page" THEN 1 + h.hops ELSE 0

(***************************************************************************)
(* fetchSite, lines 480-529: the batch check, then one processSingleUrl    *)
(* per URL, each run up to its first await (the readFile of the manifest). *)
(***************************************************************************)
\* the batch check letting one URL more through
BatchTooLarge_OffByOne(urls) == Len(urls) > MAX_BATCH + 1

\* line 482
BatchTooLarge(urls) == Len(urls) > MAX_BATCH

BatchErrorText(n) ==
    <<Seg("Error: Maximum 10 URLs per batch. You provided n URLs.", <<>>, n)>>

FetchSite(urls, images, refresh) ==
    /\ call.state # "running"
    /\ calls < MaxCalls
    /\ calls' = calls + 1
    /\ IF BatchTooLarge(urls)
       THEN /\ call' = [state |-> "replied", urls |-> urls, images |-> images,
                        refresh |-> refresh]
            /\ reply' = [text |-> BatchErrorText(Len(urls)), urls |-> urls, results |-> <<>>]
            /\ pipe' = <<>>
            /\ hist' = <<>>
            /\ UNCHANGED cacheManifestPath
       ELSE /\ call' = [state |-> "running", urls |-> urls, images |-> images,
                        refresh |-> refresh]
            /\ pipe' = [i \in 1..Len(urls) |-> NewPipe(urls[i])]
            /\ hist' = [i \in 1..Len(urls) |-> NewHist]
            /\ cacheManifestPath' = ManifestPath
            /\ UNCHANGED reply
    /\ UNCHANGED <<guardOff, cacheManifest, manifestFile, files, vIn, vOut, storeVars>>

(***************************************************************************)
(* loadCacheManifest, lines 141-154.                                       *)
(***************************************************************************)
\* fs.readFile takes the file as it is at that moment
LoadRead(i) ==
    /\ Running(i) /\ pipe[i].pc = "load"
    /\ pipe' = [pipe EXCEPT ![i].pc = "loaded", ![i].snap = manifestFile]
    /\ hist' = [hist EXCEPT ![i].sawHit =
                    /\ manifestFile.st = "ok"
                    /\ pipe[i].url \in DOMAIN manifestFile.entries
                    /\ manifestFile.entries[pipe[i].url].contentPath \in DOMAIN files,
                             ![i].faults = IF manifestFile.st = "corrupt"
                                           THEN @ \cup {"read"} ELSE @]
    /\ UNCHANGED <<guardOff, calls, call, cacheManifest, cacheManifestPath, manifestFile,
                   files, reply, vIn, vOut, storeVars>>

\* fs.readFile fails with an error other than ENOENT (the file cannot be read):
\* lines 149-151
LoadFail(i) ==
    /\ Running(i) /\ pipe[i].pc = "load"
    /\ manifestFile.st # "absent"
    /\ pipe' = [pipe EXCEPT ![i].pc = "loaded", ![i].snap = FileUnreadable]
    /\ hist' = [hist EXCEPT ![i].faults = @ \cup {"read"}]
    /\ UNCHANGED <<guardOff, calls, call, cacheManifest, cacheManifestPath, manifestFile,
                   files, reply, vIn, vOut, storeVars>>

\* JSON.parse(data), or the empty manifest of both catch branches
ParsedManifest(snap) == IF snap.st = "ok" THEN snap.entries ELSE NoEntries

\* checkRobotsTxt up to its await: new URL(url), then the robots.txt request goes out
EnterRobots(p, h) ==
    IF ParseUrl(p.url).ok
    THEN <<[p EXCEPT !.pc = "robots"],
           [h EXCEPT !.http = @ \cup {Req("robots", p.url, p.url \in h.accepted)}]>>
    ELSE <<[p EXCEPT !.pc = "validate"], h>>

\* the cache lookup without the test of refresh
CacheLookup_IgnoresRefresh(refresh, m, url) == url \in DOMAIN m

\* the cache lookup with the test of refresh the wrong way round
CacheLookup_Inverted(refresh, m, url) == refresh /\ url \in DOMAIN m

\* lines 367-369: if (!refresh) { const cached = getCacheEntry(url); if (cached) ...
CacheLookup(refresh, m, url) == ~refresh /\ url \in DOMAIN m

\* the assignment to cacheManifest, then lines 367-388 up to the next await
LoadDone(i) ==
    LET p == pipe[i]
        m == ParsedManifest(p.snap)
        hit == CacheLookup(call.refresh, m, p.url)
        next == EnterRobots(p, hist[i])
    IN  /\ Running(i) /\ p.pc = "loaded"
        /\ cacheManifest' = m
        /\ IF hit
           THEN /\ pipe' = [pipe EXCEPT ![i].pc = "cacheRead", ![i].cached = m[p.url]]
                /\ UNCHANGED hist
           ELSE /\ pipe' = [pipe EXCEPT ![i] = next[1]]
                /\ hist' = [hist EXCEPT ![i] = next[2]]
        /\ UNCHANGED <<guardOff, calls, call, cacheManifestPath, manifestFile, files,
                       reply, vIn, vOut, storeVars>>

E_ENOENT == "ENOENT: no such file or directory"

\* the readFile of CONTENT.md without the inner try: its error ends the execution
CacheRead_Throws(i) ==
    LET p == pipe[i]
        next == EnterRobots(p, hist[i])
    IN  /\ Running(i) /\ p.pc = "cacheRead"
        /\ IF p.cached.contentPath \in DOMAIN files
           THEN /\ pipe' = [pipe EXCEPT ![i].pc = "done",
                                        ![i].result =
                                            [success |-> TRUE,
                                             message |-> files[p.cached.contentPath],
                                             title |-> p.cached.title,
                                             contentPath |-> p.cached.contentPath,
                                             fromCache |-> TRUE,
                                             imageCount |-> p.cached.imageCount]]
                /\ UNCHANGED hist
           ELSE /\ pipe' = [pipe EXCEPT ![i] = Fail(p, E_ENOENT)]
                /\ hist' = [hist EXCEPT ![i].faults = @ \cup {"file"}]
        /\ UNCHANGED <<guardOff, calls, call, cacheManifest, cacheManifestPath,
                       manifestFile, files, reply, vIn, vOut, storeVars>>

\* lines 370-387: the readFile of CONTENT.md
CacheRead(i) ==
    LET p == pipe[i]
        next == EnterRobots(p, hist[i])
    IN  /\ Running(i) /\ p.pc = "cacheRead"
        /\ IF p.cached.contentPath \in DOMAIN files
           THEN /\ pipe' = [pipe EXCEPT ![i].pc = "done",
                                        ![i].result =
                                            [success |-> TRUE,
                                             message |-> files[p.cached.contentPath],
                                             title |-> p.cached.title,
                                             contentPath |-> p.cached.contentPath,
                                             fromCache |-> TRUE,
                                             imageCount |-> p.cached.imageCount]]
                /\ UNCHANGED hist
           ELSE /\ pipe' = [pipe EXCEPT ![i] = next[1]]
                /\ hist' = [hist EXCEPT ![i] = [next[2] EXCEPT !.faults = @ \cup {"file"}]]
        /\ UNCHANGED <<guardOff, calls, call, cacheManifest, cacheManifestPath,
                       manifestFile, files, reply, vIn, vOut, storeVars>>


(***************************************************************************)
(* checkRobotsTxt, lines 268-304: the answer to the robots.txt request.    *)
(***************************************************************************)
E_EACCES == "EACCES: permission denied"
E_ROBOTS == "Access disallowed by robots.txt for autonomous agents (Disallow: /)"
E_NETWORK == "Request failed"
E_TOO_LARGE == "HTML payload exceeds maximum allowed size"
\* the client's error for a body over maxContentLength
E_MAX_CONTENT == "maxContentLength size of 2000000 exceeded"

\* the byte ceiling with twice the room
OverCeiling_Lenient(bytes) == bytes > 2 * MAX_HTML_BYTES

\* maxContentLength: MAX_HTML_BYTES (line 230) and buf.length > MAX_HTML_BYTES (254)
OverCeiling(bytes) == bytes > MAX_HTML_BYTES

\* What the answer is, whatever the code makes of it: no robots.txt obtained, one
\* whose record for User-agent * holds Disallow: /, another one
RobotsKind(ans) ==
    IF ans.kind # "status" \/ ans.status >= 400 THEN "unavailable"
    ELSE IF \E k \in 1..Len(ans.text) :
                 /\ LowerField(ans.text[k].field) = "disallow"
                 /\ TrimValue(ans.text[k].value) = "/"
                 /\ \E j \in 1..(k - 1) :
                        /\ LowerField(ans.text[j].field) = "user-agent"
                        /\ TrimValue(ans.text[j].value) = "*"
                        /\ \A m \in (j + 1)..(k - 1) :
                               LowerField(ans.text[m].field) # "user-agent"
         THEN "disallow-all"
    ELSE IF \A k \in 1..Len(ans.text) :
                 LowerField(ans.text[k].field) \notin {"user-agent", "disallow"}
         THEN "malformed"
    ELSE "other"

RobotsRespond(i, ans) ==
    /\ Running(i) /\ pipe[i].pc = "robots"
    /\ pipe' = [pipe EXCEPT ![i] = IF checkRobotsTxt(ans) = "return"
                                   THEN [@ EXCEPT !.pc = "validate"]
                                   ELSE Fail(@, IF ans.kind = "status" /\ ans.status < 400
                                                THEN E_ROBOTS ELSE E_NETWORK)]
    /\ hist' = [hist EXCEPT ![i].robots = RobotsKind(ans),
                            ![i].threwAt = IF checkRobotsTxt(ans) = "return"
                                           THEN @ ELSE "robots"]
    /\ UNCHANGED <<guardOff, calls, call, cacheManifest, cacheManifestPath,
                   manifestFile, files, reply, vIn, vOut, storeVars>>

(***************************************************************************)
(* fetchWithLimits, lines 212-266.                                         *)
(***************************************************************************)
\* line 217, then the first axios.get of the loop goes out
Validate(i) ==
    LET p == pipe[i]
        v == validateUrlSafety(guardOff, p.url, Resolve(p.url))
    IN  /\ Running(i) /\ p.pc = "validate"
        /\ IF v = "ok"
           THEN /\ pipe' = [pipe EXCEPT ![i].pc = "wire", ![i].currentUrl = p.url,
                                        ![i].wire = p.url]
                /\ hist' = [hist EXCEPT ![i].accepted = @ \cup {p.url},
                                        ![i].http = @ \cup {Req("page", p.url, TRUE)}]
           ELSE /\ pipe' = [pipe EXCEPT ![i] = Fail(@, v)]
                /\ hist' = [hist EXCEPT ![i].rejected = @ \cup {p.url},
                                        ![i].threwAt = "validate"]
        /\ UNCHANGED <<guardOff, calls, call, cacheManifest, cacheManifestPath,
                       manifestFile, files, reply, vIn, vOut, storeVars>>

\* The HTTP client.  axios.get is called (lines 228-233) without maxRedirects: 0,
\* so the client follows a 3xx answer that carries a Location on its own and hands
\* the caller only the answer of the last request of the chain.
ClientFollow(i, target) ==
    /\ Running(i) /\ pipe[i].pc = "wire"
    /\ hist[i].hops < MaxHops
    /\ pipe' = [pipe EXCEPT ![i].wire = target]
    /\ hist' = [hist EXCEPT ![i].hops = @ + 1,
                            ![i].http = @ \cup {Req("redirect", target,
                                                    target \in hist[i].accepted)}]
    /\ UNCHANGED <<guardOff, calls, call, cacheManifest, cacheManifestPath,
                   manifestFile, files, reply, vIn, vOut, storeVars>>

\* the request fails: a 4xx or 5xx status (validateStatus), a network error, the
\* abort of the timeout, a body over maxContentLength
ClientError(i) ==
    /\ Running(i) /\ pipe[i].pc = "wire"
    /\ pipe' = [pipe EXCEPT ![i] = Fail(@, E_NETWORK)]
    /\ hist' = [hist EXCEPT ![i].threwAt = "fetch"]
    /\ UNCHANGED <<guardOff, calls, call, cacheManifest, cacheManifestPath,
                   manifestFile, files, reply, vIn, vOut, storeVars>>

\* Answers the client hands to the loop: a page, or a 3xx it did not follow
Answers ==
    {[status |-> 200, location |-> "", body |-> b] : b \in Bodies \cup {BIG}}
    \cup {[status |-> 302, location |-> t, body |-> R0] : t \in RedirectTargets}

\* lines 392-432 for an answer the fetcher returned: the content type branch, the
\* extraction, the truncation and the directory name, up to the await of the write
Extracted(p, res, now) ==
    IF ~isHtmlContent(res.body)
    THEN [p EXCEPT !.pc = "done", !.currentUrl = "", !.redirects = 0, !.wire = "",
                   !.result = [success |-> TRUE,
                               message |-> RawContent(res.body, CHARACTER_LIMIT),
                               title |-> <<>>, contentPath |-> <<>>,
                               fromCache |-> FALSE, imageCount |-> 0]]
    ELSE IF call.images /\ ImgCount(res.body) > 0
    \* line 413: the image requests go out
    THEN [p EXCEPT !.pc = "images", !.currentUrl = "", !.redirects = 0, !.wire = "",
                   !.content = Truncate(res.body, CHARACTER_LIMIT),
                   !.title = res.body.title]
    ELSE [p EXCEPT !.pc = "writeMd", !.currentUrl = "", !.redirects = 0, !.wire = "",
                   !.content = Truncate(res.body, CHARACTER_LIMIT),
                   !.title = res.body.title,
                   !.dirname = sanitizeDirname(res.body.title, p.url, now),
                   !.fetched = now]

(***************************************************************************)
(* The images, lines 338-353 and 412-432.  Each task ends in one of: "ok"  *)
(* (fetched and re-encoded), "null" (fetchImage returned null: rejected by *)
(* the validator, request failed, over MAX_IMAGE_BYTES), "throw" (sharp    *)
(* rejected the data).  Promise.all rejects when a task throws.            *)
(***************************************************************************)
ImageOutcomes == {"ok", "null", "throw"}

E_SHARP == "Input buffer contains unsupported image format"

\* the count that takes every image of the page as saved
CountOk_All(outcomes) == Len(outcomes)

\* line 425: filtered.length
CountOk(outcomes) == Cardinality({k \in DOMAIN outcomes : outcomes[k] = "ok"})

\* results.filter(...): the images whose task gave data, in order
RECURSIVE Kept(_, _)
Kept(names, outcomes) ==
    IF names = <<>> THEN <<>>
    ELSE (IF Head(outcomes) = "ok" THEN <<Head(names)>> ELSE <<>>)
         \o Kept(Tail(names), Tail(outcomes))

\* a pipeline that writes CONTENT.md before its images are re-encoded
ImagesDone_AfterWrite(i, outcomes) ==
    LET p == pipe[i]
        throws == \E k \in DOMAIN outcomes : outcomes[k] = "throw"
        dirname == sanitizeDirname(p.title, p.url, calls)
    IN
    /\ Running(i) /\ p.pc = "images"
    /\ Len(outcomes) = ImgCount(hist[i].body)
    /\ hist' = [hist EXCEPT ![i].imgs = outcomes,
                            ![i].threwAt = IF throws THEN "images" ELSE @]
    /\ files' = IF throws
                THEN PutFile(files, DirPath(dirname),
                             generateFrontmatter(p.url, p.title, calls) \o p.content)
                ELSE files
    /\ pipe' = [pipe EXCEPT ![i] =
                    IF throws
                    THEN Fail(@, E_SHARP)
                    ELSE [@ EXCEPT !.pc = "writeMd",
                                   !.imageCount = CountOk(outcomes),
                                   !.kept = Kept(ImgNames(hist[i].body), outcomes),
                                   !.dirname = dirname,
                                   !.fetched = calls]]
    /\ UNCHANGED <<guardOff, calls, call, cacheManifest, cacheManifestPath,
                   manifestFile, reply, vIn, vOut, storeVars>>

ImagesDone(i, outcomes) ==
    LET p == pipe[i] IN
    /\ Running(i) /\ p.pc = "images"
    /\ Len(outcomes) = ImgCount(hist[i].body)
    /\ hist' = [hist EXCEPT ![i].imgs = outcomes,
                            ![i].threwAt = IF \E k \in DOMAIN outcomes : outcomes[k] = "throw"
                                           THEN "images" ELSE @]
    /\ pipe' = [pipe EXCEPT ![i] =
                    IF \E k \in DOMAIN outcomes : outcomes[k] = "throw"
                    THEN Fail(@, E_SHARP)
                    ELSE [@ EXCEPT !.pc = "writeMd",
                                   !.imageCount = CountOk(outcomes),
                                   !.kept = Kept(ImgNames(hist[i].body), outcomes),
                                   !.dirname = sanitizeDirname(p.title, p.url, calls),
                                   !.fetched = calls]]
    /\ UNCHANGED <<guardOff, calls, call, cacheManifest, cacheManifestPath,
                   manifestFile, files, reply, vIn, vOut, storeVars>>

\* lines 235-262: what the loop does with the answer of one axios.get.  After the
\* redirect that makes redirects exceed MAX_REDIRECTS the loop ends without a throw,
\* and lines 248-262 return the body of that 3xx answer.
ClientResponse(i, res) ==
    LET p == pipe[i]
        isRedirect == res.status >= 300 /\ res.status < 400 /\ res.location # ""
        v == validateUrlSafety(guardOff, res.location, Resolve(res.location))
        q == IF isRedirect
             THEN [p EXCEPT !.currentUrl = res.location, !.redirects = @ + 1]
             ELSE p
    IN  /\ Running(i) /\ p.pc = "wire"
        /\ isRedirect => hist[i].hops < MaxHops
        /\ IF OverCeiling(res.body.bytes)
           \* the client rejects while it reads the body
           THEN /\ pipe' = [pipe EXCEPT ![i] = Fail(@, E_MAX_CONTENT)]
                /\ hist' = [hist EXCEPT ![i].body = res.body, ![i].threwAt = "fetch"]
           ELSE IF isRedirect /\ v # "ok"
           THEN /\ pipe' = [pipe EXCEPT ![i] = Fail(@, v)]
                /\ hist' = [hist EXCEPT ![i].rejected = @ \cup {res.location},
                                        ![i].threwAt = "fetch"]
           ELSE IF isRedirect /\ q.redirects <= MAX_REDIRECTS
           THEN /\ pipe' = [pipe EXCEPT ![i] = [q EXCEPT !.wire = res.location]]
                /\ hist' = [hist EXCEPT ![i].accepted = @ \cup {res.location},
                                        ![i].hops = @ + 1,
                                        ![i].http = @ \cup {Req("redirect", res.location, TRUE)}]
           ELSE IF OverCeiling(res.body.bytes)
           THEN /\ pipe' = [pipe EXCEPT ![i] = Fail(@, E_TOO_LARGE)]
                /\ hist' = [hist EXCEPT ![i].body = res.body, ![i].threwAt = "fetch"]
           ELSE /\ pipe' = [pipe EXCEPT ![i] = Extracted(q, res, calls)]
                /\ hist' = [hist EXCEPT ![i].body = res.body,
                                        ![i].accepted = IF isRedirect
                                                        THEN @ \cup {res.location} ELSE @]
        /\ UNCHANGED <<guardOff, calls, call, cacheManifest, cacheManifestPath,
                       manifestFile, files, reply, vIn, vOut, storeVars>>

(***************************************************************************)
(* writeMarkdownWithFrontmatter, lines 201-210, and setCacheEntry and      *)
(* saveCacheManifest, lines 156-178.  fs.writeFile opens the file cut to   *)
(* length 0 and then writes: a read between the two sees the empty file.   *)
(***************************************************************************)
TitleOrUntitled(title) == IF title # <<>> THEN title ELSE Untitled

WriteOpen(i) ==
    /\ Running(i) /\ pipe[i].pc = "writeMd"
    /\ files' = PutFile(files, DirPath(pipe[i].dirname), <<>>)
    /\ pipe' = [pipe EXCEPT ![i].pc = "writeMd2"]
    /\ UNCHANGED <<guardOff, calls, call, hist, cacheManifest, cacheManifestPath,
                   manifestFile, reply, vIn, vOut, storeVars>>

\* lines 452-460
NewEntry(p) ==
    [directory |-> p.dirname, title |-> TitleOrUntitled(p.title), fetched |-> p.fetched,
     contentPath |-> DirPath(p.dirname), contentHash |-> generateContentHash(p.content),
     imageCount |-> p.imageCount, charCount |-> TextLen(p.content)]

\* lines 462-470
FreshResult(p) ==
    [success |-> TRUE, message |-> p.content, title |-> TitleOrUntitled(p.title),
     contentPath |-> DirPath(p.dirname), fromCache |-> FALSE,
     imageCount |-> p.imageCount]

\* a store that keeps the new entry only
setCacheEntry_Alone(m, url, entry) == PutEntry(NoEntries, url, entry)

\* line 176
setCacheEntry(m, url, entry) == PutEntry(m, url, entry)

\* the write of CONTENT.md ends; setCacheEntry runs up to the await in saveCacheManifest
WriteDone(i) ==
    LET p == pipe[i] IN
    /\ Running(i) /\ p.pc = "writeMd2"
    /\ files' = LET md == PutFile(files, DirPath(p.dirname),
                                  generateFrontmatter(p.url, TitleOrUntitled(p.title),
                                                      p.fetched) \o p.content)
                    old == IF ImagesPath(p.dirname) \in DOMAIN files
                           THEN files[ImagesPath(p.dirname)] ELSE {}
                IN  \* lines 441-450: the files i_filename of the images kept, next
                    \* to what the directory held
                    IF p.imageCount > 0
                    THEN PutFile(md, ImagesPath(p.dirname),
                                 old \cup {<<k - 1, p.kept[k]>> : k \in DOMAIN p.kept})
                    ELSE md
    /\ cacheManifest' = setCacheEntry(cacheManifest, p.url, NewEntry(p))
    \* line 157: without a manifest path saveCacheManifest returns at once
    /\ pipe' = [pipe EXCEPT ![i] = IF cacheManifestPath = <<>>
                                   THEN [@ EXCEPT !.pc = "done", !.result = FreshResult(p)]
                                   ELSE [@ EXCEPT !.pc = "save"]]
    /\ hist' = [hist EXCEPT ![i].stored = NewEntry(p)]
    /\ UNCHANGED <<guardOff, calls, call, cacheManifestPath, manifestFile, reply,
                   vIn, vOut, storeVars>>

\* a save that reads the file again and sets its own key in what the file holds
SaveOpen_PerKey(i) ==
    /\ Running(i) /\ pipe[i].pc = "save"
    /\ pipe' = [pipe EXCEPT ![i].pc = "save2", ![i].toWrite =
                    PutEntry(manifestFile.entries, pipe[i].url, hist[i].stored)]
    /\ manifestFile' = FileCorrupt
    /\ UNCHANGED <<guardOff, calls, call, hist, cacheManifest, cacheManifestPath, files,
                   reply, vIn, vOut, storeVars>>

\* JSON.stringify(cacheManifest) as it is after the mkdir, and the file is opened
SaveOpen(i) ==
    /\ Running(i) /\ pipe[i].pc = "save"
    /\ pipe' = [pipe EXCEPT ![i].pc = "save2", ![i].toWrite = cacheManifest]
    /\ manifestFile' = FileCorrupt
    /\ UNCHANGED <<guardOff, calls, call, hist, cacheManifest, cacheManifestPath, files,
                   reply, vIn, vOut, storeVars>>

SaveDone(i) ==
    /\ Running(i) /\ pipe[i].pc = "save2"
    /\ manifestFile' = FileOk(pipe[i].toWrite)
    /\ pipe' = [pipe EXCEPT ![i].pc = "done", ![i].result = FreshResult(pipe[i])]
    /\ UNCHANGED <<guardOff, calls, call, hist, cacheManifest, cacheManifestPath, files,
                   reply, vIn, vOut, storeVars>>

\* the catch of saveCacheManifest without its try: the error ends the execution
SaveFail_Fatal(i) ==
    /\ Running(i) /\ pipe[i].pc \in {"save", "save2"}
    /\ pipe' = [pipe EXCEPT ![i] = Fail(pipe[i], E_EACCES)]
    /\ hist' = [hist EXCEPT ![i].faults = @ \cup {"save"}]
    /\ UNCHANGED <<guardOff, calls, call, cacheManifest, cacheManifestPath, manifestFile,
                   files, reply, vIn, vOut, storeVars>>

\* lines 166-168: the mkdir or the writeFile of the manifest fails (before the file
\* is opened, or after it was cut to length 0); the error is logged, setCacheEntry
\* returns and lines 462-470 follow
SaveFail(i) ==
    /\ Running(i) /\ pipe[i].pc \in {"save", "save2"}
    /\ pipe' = [pipe EXCEPT ![i].pc = "done", ![i].result = FreshResult(pipe[i])]
    /\ hist' = [hist EXCEPT ![i].faults = @ \cup {"save"}]
    /\ UNCHANGED <<guardOff, calls, call, cacheManifest, cacheManifestPath, manifestFile,
                   files, reply, vIn, vOut, storeVars>>

\* Somebody removes a page's CONTENT.md from the content directory.
ContentRemoved(path) ==
    /\ path \in DOMAIN files
    /\ files' = [x \in DOMAIN files \ {path} |-> files[x]]
    /\ UNCHANGED <<guardOff, calls, call, pipe, hist, cacheManifest, cacheManifestPath,
                   manifestFile, reply, vIn, vOut, storeVars>>

(***************************************************************************)
(* fetchSite, lines 492-563: the answer once every execution has ended.    *)
(***************************************************************************)
PathChars(path) == IF path = <<>> THEN <<>> ELSE <<path[1], "/">> \o path[2]

SingleText(r, url) ==
    IF ~r.success THEN <<Seg("Error fetching", <<url>>, 0)>> \o r.message
    ELSE <<Seg("# ", r.title, 0)>> \o r.message \o <<Seg("---", <<>>, 0)>>
         \o (IF r.contentPath # <<>>
             THEN <<Seg("Saved to:", PathChars(r.contentPath), 0)>> ELSE <<>>)
         \o (IF r.fromCache
             THEN <<Seg("Served from cache (use refresh=true to re-fetch)", <<>>, 0)>>
             ELSE <<>>)
         \o (IF r.imageCount > 0 THEN <<Seg("images saved", <<>>, r.imageCount)>> ELSE <<>>)

RECURSIVE SumImages(_)
SumImages(rs) ==
    IF rs = <<>> THEN 0
    ELSE (IF Head(rs).success THEN Head(rs).imageCount ELSE 0) + SumImages(Tail(rs))

BatchLine(r, url, n) ==
    IF r.success
    THEN <<Seg("ok", r.title, n), Seg("->", PathChars(r.contentPath), 0)>>
         \o (IF r.fromCache THEN <<Seg("(cached)", <<>>, 0)>> ELSE <<>>)
    ELSE <<Seg("failed", <<url>>, n)>> \o r.message

RECURSIVE BatchLines(_, _, _)
BatchLines(rs, urls, n) ==
    IF rs = <<>> THEN <<>>
    ELSE BatchLine(Head(rs), Head(urls), n) \o BatchLines(Tail(rs), Tail(urls), n + 1)

BatchText(rs, urls) ==
    LET ok == Cardinality({i \in DOMAIN rs : rs[i].success})
        failed == Len(rs) - ok
    IN  <<Seg("## Batch Fetch Complete", <<>>, 0), Seg("Total:", <<>>, Len(urls)),
          Seg("Successful:", <<>>, ok)>>
        \o (IF failed > 0 THEN <<Seg("Failed:", <<>>, failed)>> ELSE <<>>)
        \o <<Seg("### Results:", <<>>, 0)>>
        \o BatchLines(rs, urls, 1)
        \o (IF SumImages(rs) > 0 THEN <<Seg("Total images:", <<>>, SumImages(rs))>>
            ELSE <<>>)

\* fetchSite with a Promise.all that a failed execution rejects: the call answers with
\* the error alone
Reply_AbortOnFailure ==
    LET rs == [i \in DOMAIN pipe |-> pipe[i].result]
        failed == {i \in DOMAIN pipe : ~rs[i].success}
    IN  /\ call.state = "running"
        /\ \A i \in DOMAIN pipe : pipe[i].pc = "done"
        /\ call' = [call EXCEPT !.state = "replied"]
        /\ reply' = IF failed # {}
                    THEN [text |-> rs[CHOOSE i \in failed : TRUE].message,
                          urls |-> call.urls, results |-> <<>>]
                    ELSE [text |-> IF Len(call.urls) = 1
                                   THEN SingleText(rs[1], call.urls[1])
                                   ELSE BatchText(rs, call.urls),
                          urls |-> call.urls, results |-> rs]
        /\ UNCHANGED <<guardOff, calls, pipe, hist, cacheManifest, cacheManifestPath,
                       manifestFile, files, vIn, vOut, storeVars>>

Reply ==
    LET rs == [i \in DOMAIN pipe |-> pipe[i].result]
    IN  /\ call.state = "running"
        /\ \A i \in DOMAIN pipe : pipe[i].pc = "done"
        /\ call' = [call EXCEPT !.state = "replied"]
        /\ reply' = [text |-> IF Len(call.urls) = 1 THEN SingleText(rs[1], call.urls[1])
                               ELSE BatchText(rs, call.urls),
                     urls |-> call.urls, results |-> rs]
        /\ UNCHANGED <<guardOff, calls, pipe, hist, cacheManifest, cacheManifestPath,
                       manifestFile, files, vIn, vOut, storeVars>>


(***************************************************************************)
(* tools/askDocsAgent.ts (index.ts lines 398-742) and the ask_docs_agent   *)
(* handler (index.ts lines 234-258).  A listing is the sequence of stores  *)
(* the list API returns; the cache keeps the map from display name to      *)
(* store name.                                                             *)
(***************************************************************************)
MaxOps == 2
MaxClock == 600002
STORE_CACHE_TTL == 300000

\* the value of a missing argument or property
Undefined == "undefined"

NoCache == [stores |-> <<>>, timestamp |-> -1]

Listing0 == <<[name |-> "fileSearchStores/openai-1", displayName |-> "openai"],
              [name |-> "fileSearchStores/tmp-2", displayName |-> ""]>>
Listing1 == Listing0 \o <<[name |-> "fileSearchStores/mcp-3", displayName |-> "mcp"]>>

\* lines 438-451: storeMap.set(displayName, name) for the stores that have both
StoreMap(listing) ==
    LET named == {k \in DOMAIN listing :
                      listing[k].displayName # "" /\ listing[k].name # ""}
        keys == {listing[k].displayName : k \in named}
    IN  [d \in keys |->
            listing[CHOOSE k \in named :
                        /\ listing[k].displayName = d
                        /\ \A m \in named : listing[m].displayName = d => m <= k].name]

\* lines 427-458, once the pages are in
fetchStores(listing, now) == [stores |-> StoreMap(listing), timestamp |-> now]

\* the test of line 465 with <= for <
CacheFresh_Inclusive(forceRefresh, cache, now) ==
    ~forceRefresh /\ cache # NoCache /\ now - cache.timestamp <= STORE_CACHE_TTL

\* line 465
CacheFresh(forceRefresh, cache, now) ==
    ~forceRefresh /\ cache # NoCache /\ now - cache.timestamp < STORE_CACHE_TTL

IdleOp == [pc |-> "idle", kind |-> "", force |-> FALSE, params |-> [query |-> ""],
           listed |-> FALSE, cache |-> NoCache,
           result |-> [kind |-> ""]]

\* params.target of askDocsAgent: the property of the object the handler built
Property(params, name) == IF name \in DOMAIN params THEN params[name] ELSE Undefined

\* a ?? b
Nullish(a, b) == IF a # Undefined THEN a ELSE b

\* lines 255-256: isError of the handler
IsError(result) == result.kind \in {"missing", "notFound", "apiError"}

\* lines 671-700 once getStores has returned cache: the lookup of params.target and the
\* generateContent request
AfterStores(op, cache) ==
    IF op.kind = "stores"
    THEN [op EXCEPT !.pc = "done", !.cache = cache, !.result = [kind |-> "stores"]]
    ELSE LET target == Property(op.params, "target") IN
         IF target \notin DOMAIN cache.stores
         THEN [op EXCEPT !.pc = "done", !.cache = cache,
                         !.result = [kind |-> "notFound", target |-> target,
                                     available |-> DOMAIN cache.stores]]
         ELSE [op EXCEPT !.pc = "querying", !.cache = cache]

\* getStores, lines 460-470, up to its return or to the list request of fetchStores
\* (listed: this call sent the request)
EnterGetStores(o, op) ==
    IF CacheFresh(op.force, storeCache, clock)
    THEN /\ ops' = [ops EXCEPT ![o] = AfterStores(op, storeCache)]
         /\ gemini' = IF ops'[o].pc = "querying"
                      THEN [gemini EXCEPT !.queries =
                               @ \cup {storeCache.stores[Property(op.params, "target")]}]
                      ELSE gemini
    ELSE /\ ops' = [ops EXCEPT ![o] = [op EXCEPT !.pc = "listing", !.listed = TRUE]]
         /\ UNCHANGED gemini

\* a call of getStores(client, forceRefresh) (getAvailableStores calls it without
\* forceRefresh, line 479)
GetStores(o, forceRefresh) ==
    /\ ops[o].pc = "idle"
    /\ EnterGetStores(o, [IdleOp EXCEPT !.kind = "stores", !.force = forceRefresh])
    /\ UNCHANGED <<storeCache, clock>>
    /\ UNCHANGED <<guardOff, calls, call, pipe, hist, cacheManifest, cacheManifestPath,
                   manifestFile, files, reply, vIn, vOut>>

\* the ask_docs_agent handler, lines 234-255, and askDocsAgent up to its first await
AskDocs(o, args) ==
    LET reference == Nullish(args.reference, args.target)
        params == [query |-> args.query, reference |-> reference]
    IN  /\ ops[o].pc = "idle"
        /\ IF reference = Undefined
           THEN /\ ops' = [ops EXCEPT ![o] = [IdleOp EXCEPT !.pc = "done", !.kind = "ask",
                                                            !.result = [kind |-> "missing"]]]
                /\ UNCHANGED gemini
           ELSE EnterGetStores(o, [IdleOp EXCEPT !.kind = "ask", !.params = params])
        /\ UNCHANGED <<storeCache, clock>>
        /\ UNCHANGED <<guardOff, calls, call, pipe, hist, cacheManifest,
                       cacheManifestPath, manifestFile, files, reply, vIn, vOut>>

\* fetchStores returns: line 468 assigns the cache, the caller goes on
FetchStoresDone(o) ==
    LET new == fetchStores(gemini.stores, clock) IN
    /\ ops[o].pc = "listing"
    /\ storeCache' = new
    /\ ops' = [ops EXCEPT ![o] = AfterStores(ops[o], new)]
    /\ gemini' = IF ops'[o].pc = "querying"
                 THEN [gemini EXCEPT !.queries =
                          @ \cup {new.stores[Property(ops[o].params, "target")]}]
                 ELSE gemini
    /\ UNCHANGED clock
    /\ UNCHANGED <<guardOff, calls, call, pipe, hist, cacheManifest, cacheManifestPath,
                   manifestFile, files, reply, vIn, vOut>>

\* the list request fails: getStores throws; handleAskError answers for askDocsAgent
FetchStoresFail(o) ==
    /\ ops[o].pc = "listing"
    /\ ops' = [ops EXCEPT ![o].pc = "done", ![o].result = [kind |-> "apiError"]]
    /\ UNCHANGED <<storeCache, clock, gemini>>
    /\ UNCHANGED <<guardOff, calls, call, pipe, hist, cacheManifest, cacheManifestPath,
                   manifestFile, files, reply, vIn, vOut>>

\* generateContent answers, lines 702-736: with grounding metadata, without it, or
\* with an error
GenerateDone(o, response) ==
    LET op == ops[o]
        target == Property(op.params, "target")
    IN  /\ op.pc = "querying"
        /\ ops' = [ops EXCEPT ![o].pc = "done",
                              ![o].result =
                                  IF response = "grounded"
                                  THEN [kind |-> "answer", target |-> target,
                                        store |-> op.cache.stores[target]]
                                  ELSE IF response = "none"
                                  THEN [kind |-> "noResults", target |-> target]
                                  ELSE [kind |-> "apiError"]]
        /\ UNCHANGED <<storeCache, clock, gemini>>
        /\ UNCHANGED <<guardOff, calls, call, pipe, hist, cacheManifest,
                       cacheManifestPath, manifestFile, files, reply, vIn, vOut>>

\* the caller has its answer; the slot takes the next call
Return(o) ==
    /\ ops[o].pc = "done"
    /\ ops' = [ops EXCEPT ![o] = IdleOp]
    /\ UNCHANGED <<storeCache, clock, gemini>>
    /\ UNCHANGED <<guardOff, calls, call, pipe, hist, cacheManifest, cacheManifestPath,
                   manifestFile, files, reply, vIn, vOut>>

\* time passes
TickSizes == {STORE_CACHE_TTL - 1, STORE_CACHE_TTL, STORE_CACHE_TTL + 1}

Tick(d) ==
    /\ clock + d <= MaxClock
    /\ clock' = clock + d
    /\ UNCHANGED <<storeCache, gemini, ops>>
    /\ UNCHANGED <<guardOff, calls, call, pipe, hist, cacheManifest, cacheManifestPath,
                   manifestFile, files, reply, vIn, vOut>>

\* the sync workflow adds a store
StoresSynced ==
    /\ gemini.stores = Listing0
    /\ gemini' = [gemini EXCEPT !.stores = Listing1]
    /\ UNCHANGED <<storeCache, clock, ops>>
    /\ UNCHANGED <<guardOff, calls, call, pipe, hist, cacheManifest, cacheManifestPath,
                   manifestFile, files, reply, vIn, vOut>>

(***************************************************************************)
(* One call of validateUrlSafety on an input of its own.                   *)
(***************************************************************************)
DnsAnswers ==
    {DnsFail} \cup {DnsOk(S) : S \in {T \in SUBSET AddrPool :
                                          Cardinality(T) >= 1 /\ Cardinality(T) <= MaxAddrs}}

NoValidatorInput == [url |-> "", dns |-> DnsFail, disable |-> FALSE]

RunValidator ==
    /\ vOut = "none"
    /\ vIn # NoValidatorInput
    /\ vOut' = validateUrlSafety(vIn.disable, vIn.url, vIn.dns)
    /\ UNCHANGED <<guardOff, calls, call, pipe, hist, cacheManifest, cacheManifestPath,
                   manifestFile, files, reply, vIn, storeVars>>

(***************************************************************************)
(* The specifications.                                                     *)
(***************************************************************************)
Batch11 == <<U_A, U_B, U_A, U_B, U_A, U_B, U_A, U_B, U_A, U_B, U_A>>

Requests == {<<u>> : u \in Urls} \cup {Batch11}

InitPipeline ==
    /\ calls = 0
    /\ call = [state |-> "none", urls |-> <<>>, images |-> FALSE, refresh |-> FALSE]
    /\ pipe = <<>>
    /\ hist = <<>>
    /\ cacheManifest = NoEntries
    /\ cacheManifestPath = <<>>
    /\ manifestFile = FileAbsent
    /\ files = [x \in {} |-> <<>>]
    /\ reply = [text |-> <<>>, urls |-> <<>>, results |-> <<>>]
    /\ storeCache = NoCache
    /\ clock = 0
    /\ gemini = [stores |-> Listing0, queries |-> {}]
    /\ ops = [o \in 1..MaxOps |-> IdleOp]

Init ==
    /\ guardOff \in BOOLEAN
    /\ InitPipeline
    /\ vIn = NoValidatorInput
    /\ vOut = "none"

Next ==
    \/ \E urls \in Requests, refresh \in BOOLEAN : FetchSite(urls, FALSE, refresh)
    \/ \E i \in DOMAIN pipe : LoadRead(i)
    \/ \E i \in DOMAIN pipe : LoadDone(i)
    \/ \E i \in DOMAIN pipe : CacheRead(i)
    \/ \E i \in DOMAIN pipe, ans \in RobotsAnswers : RobotsRespond(i, ans)
    \/ \E i \in DOMAIN pipe : Validate(i)
    \/ \E i \in DOMAIN pipe, target \in RedirectTargets : ClientFollow(i, target)
    \/ \E i \in DOMAIN pipe : ClientError(i)
    \/ \E i \in DOMAIN pipe, res \in Answers : ClientResponse(i, res)
    \/ \E i \in DOMAIN pipe : WriteOpen(i)
    \/ \E i \in DOMAIN pipe : WriteDone(i)
    \/ \E i \in DOMAIN pipe : SaveOpen(i)
    \/ \E i \in DOMAIN pipe : SaveDone(i)
    \/ Reply

Spec == Init /\ [][Next]_vars

\* dns.lookup names no address for the bracketed text the URL parser gives as the
\* hostname of an IPv6 literal
InitValidator ==
    /\ guardOff = FALSE
    /\ InitPipeline
    /\ vIn \in [url : ValidatorUrls, dns : DnsAnswers, disable : BOOLEAN]
    /\ ParseUrl(vIn.url).hostname = "[::1]" => vIn.dns = DnsFail
    /\ vOut = "none"

SpecValidator == InitValidator /\ [][RunValidator]_vars

(***************************************************************************)
(* Lines 392-432 of processSingleUrl on one answer of their own: pages     *)
(* whose markdown is shorter than, as long as and longer than the ceiling. *)
(***************************************************************************)
TruncLengths ==
    {0, 1, 1200, 30000}
    \cup ((CHARACTER_LIMIT - TruncSpan)..(CHARACTER_LIMIT + TruncSpan))

PagesOfLength ==
    {[H1 EXCEPT !.mdLen = n, !.ctype = c] :
        n \in TruncLengths, c \in {"text/html", "text/html; charset=utf-8"}}

InitExtract ==
    /\ guardOff = FALSE
    /\ InitPipeline
    /\ vIn \in {[status |-> 200, location |-> "", body |-> b] : b \in PagesOfLength}
    /\ vOut = [pc |-> "none"]

RunExtract ==
    /\ vOut.pc = "none"
    /\ vOut' = Extracted(NewPipe(U_A), vIn, 1)
    /\ UNCHANGED <<guardOff, calls, call, pipe, hist, cacheManifest, cacheManifestPath,
                   manifestFile, files, reply, vIn, storeVars>>

SpecExtract == InitExtract /\ [][RunExtract]_vars

(***************************************************************************)
(* Batches: the executions of one call run interleaved (Promise.all, line  *)
(* 525).  The servers answer without redirects here.                       *)
(***************************************************************************)
BatchRequests == {<<U_INT, U_A>>, <<U_A, U_B>>}

BatchRobotsAnswers == {[kind |-> "status", status |-> 404, text |-> <<>>]}

BatchAnswers == {[status |-> 200, location |-> "", body |-> b] : b \in {H1, J1}}

InitBatch ==
    /\ guardOff = FALSE
    /\ InitPipeline
    /\ vIn = NoValidatorInput
    /\ vOut = "none"

NextBatch ==
    \/ \E urls \in BatchRequests, refresh \in BOOLEAN : FetchSite(urls, FALSE, refresh)
    \/ \E i \in DOMAIN pipe : LoadRead(i)
    \/ \E i \in DOMAIN pipe : LoadDone(i)
    \/ \E i \in DOMAIN pipe : CacheRead(i)
    \/ \E i \in DOMAIN pipe, ans \in BatchRobotsAnswers : RobotsRespond(i, ans)
    \/ \E i \in DOMAIN pipe : Validate(i)
    \/ \E i \in DOMAIN pipe : ClientError(i)
    \/ \E i \in DOMAIN pipe, res \in BatchAnswers : ClientResponse(i, res)
    \/ \E i \in DOMAIN pipe : WriteOpen(i)
    \/ \E i \in DOMAIN pipe : WriteDone(i)
    \/ \E i \in DOMAIN pipe : SaveOpen(i)
    \/ \E i \in DOMAIN pipe : SaveDone(i)
    \/ Reply

SpecBatch == InitBatch /\ [][NextBatch]_vars

(***************************************************************************)
(* Calls that ask for the images of the page.                              *)
(***************************************************************************)
ImageAnswers == {[status |-> 200, location |-> "", body |-> b] : b \in {P2, H1}}

ImageRequests ==
    {[url |-> <<U_A>>, images |-> i, refresh |-> r] : i \in BOOLEAN, r \in BOOLEAN}
    \cup {[url |-> <<U_INT>>, images |-> TRUE, refresh |-> TRUE],
          [url |-> <<U_A, U_B>>, images |-> TRUE, refresh |-> FALSE]}

NextImages ==
    \/ \E params \in ImageRequests :
           FetchSite(params.url, params.images, params.refresh)
    \/ \E i \in DOMAIN pipe : LoadRead(i)
    \/ \E i \in DOMAIN pipe : LoadDone(i)
    \/ \E i \in DOMAIN pipe : CacheRead(i)
    \/ \E i \in DOMAIN pipe, ans \in BatchRobotsAnswers : RobotsRespond(i, ans)
    \/ \E i \in DOMAIN pipe : Validate(i)
    \/ \E i \in DOMAIN pipe : ClientError(i)
    \/ \E i \in DOMAIN pipe, res \in ImageAnswers : ClientResponse(i, res)
    \/ \E i \in DOMAIN pipe, outcomes \in [1..2 -> ImageOutcomes] : ImagesDone(i, outcomes)
    \/ \E i \in DOMAIN pipe : WriteOpen(i)
    \/ \E i \in DOMAIN pipe : WriteDone(i)
    \/ \E i \in DOMAIN pipe : SaveOpen(i)
    \/ \E i \in DOMAIN pipe : SaveDone(i)
    \/ Reply

SpecImages == InitBatch /\ [][NextImages]_vars

(***************************************************************************)
(* The cache under I/O failures: the manifest cannot be read or written,   *)
(* a stored page is removed from the disk.                                 *)
(***************************************************************************)
NextCache ==
    \/ \E u \in {U_A, U_B}, refresh \in BOOLEAN : FetchSite(<<u>>, FALSE, refresh)
    \/ \E i \in DOMAIN pipe : LoadRead(i)
    \/ \E i \in DOMAIN pipe : LoadFail(i)
    \/ \E i \in DOMAIN pipe : LoadDone(i)
    \/ \E i \in DOMAIN pipe : CacheRead(i)
    \/ \E i \in DOMAIN pipe, ans \in BatchRobotsAnswers : RobotsRespond(i, ans)
    \/ \E i \in DOMAIN pipe : Validate(i)
    \/ \E i \in DOMAIN pipe : ClientError(i)
    \/ \E i \in DOMAIN pipe, res \in BatchAnswers : ClientResponse(i, res)
    \/ \E i \in DOMAIN pipe : WriteOpen(i)
    \/ \E i \in DOMAIN pipe : WriteDone(i)
    \/ \E i \in DOMAIN pipe : SaveOpen(i)
    \/ \E i \in DOMAIN pipe : SaveDone(i)
    \/ \E i \in DOMAIN pipe : SaveFail(i)
    \/ \E path \in DOMAIN files : ContentRemoved(path)
    \/ Reply

SpecCache == InitBatch /\ [][NextCache]_vars


(***************************************************************************)
(* tools/fetchDocs.ts: buildMatchResult, lines 253-345.  A library is its  *)
(* id and its title, both character strings.  A score is the fraction      *)
(* num / den, so that 100 * (1 - dist / maxLen) is kept exactly.           *)
(***************************************************************************)
MaxLibs == 2
SEMANTIC_FLOOR == 60

Score(num, den) == [num |-> num, den |-> den]
ScoreGt(x, y) == x.num * y.den > y.num * x.den
ScoreEq(x, y) == x.num * y.den = y.num * x.den

Max(a, b) == IF a > b THEN a ELSE b

\* one row of the table dp of similarity, lines 291-300; acc holds the columns done
RECURSIVE LevRow(_, _, _, _)
LevRow(prev, ch, b, acc) ==
    IF Len(acc) = Len(b) + 1 THEN acc
    ELSE LET j == Len(acc)
             cost == IF ch = b[j] THEN 0 ELSE 1
         IN  LevRow(prev, ch, b,
                    Append(acc, Min(Min(prev[j + 1] + 1, acc[j] + 1), prev[j] + cost)))

RECURSIVE LevRows(_, _, _, _)
LevRows(a, b, i, prev) ==
    IF i > Len(a) THEN prev
    ELSE LevRows(a, b, i + 1, LevRow(prev, a[i], b, <<i>>))

\* dp[la][lb]
Distance(a, b) == LevRows(a, b, 1, [j \in 1..(Len(b) + 1) |-> j - 1])[Len(b) + 1]

\* lines 284-307
similarity(a, b) ==
    LET maxLen == IF Max(Len(a), Len(b)) = 0 THEN 1 ELSE Max(Len(a), Len(b))
    IN  Score(100 * (maxLen - Distance(a, b)), maxLen)

\* id.split("/").pop()
RECURSIVE AfterLastSlash(_)
AfterLastSlash(s) ==
    IF \E k \in DOMAIN s : s[k] = "/"
    THEN AfterLastSlash(SubSeq(s, (CHOOSE k \in DOMAIN s : s[k] = "/") + 1, Len(s)))
    ELSE s

\* lines 263-265 and 314-316
RepoName(lib) == toLowerCase(AfterLastSlash(lib.id))

\* Map.get after the set calls of lines 261-267: the last library with the key
LastWithTitle(libraries, key) ==
    libraries[CHOOSE k \in DOMAIN libraries :
                  /\ toLowerCase(libraries[k].title) = key
                  /\ \A m \in DOMAIN libraries :
                         toLowerCase(libraries[m].title) = key => m <= k]

LastWithRepo(libraries, key) ==
    libraries[CHOOSE k \in DOMAIN libraries :
                  /\ RepoName(libraries[k]) = key
                  /\ \A m \in DOMAIN libraries : RepoName(libraries[m]) = key => m <= k]

\* lines 312-324: the best score over the names of a library
LibNames(lib) == {toLowerCase(lib.title), RepoName(lib), toLowerCase(lib.id)}

LibScore(lib, normalizedTarget) ==
    LET scores == {similarity(normalizedTarget, name) : name \in LibNames(lib)}
        top == CHOOSE x \in scores : \A y \in scores : ~ScoreGt(y, x)
    IN  IF ScoreGt(top, Score(0, 1)) THEN top ELSE Score(0, 1)

\* line 328: Array.prototype.sort is stable; by descending score
RECURSIVE InsertByScore(_, _)
InsertByScore(sorted, c) ==
    IF sorted = <<>> THEN <<c>>
    ELSE IF ScoreGt(c.score, Head(sorted).score) THEN <<c>> \o sorted
    ELSE <<Head(sorted)>> \o InsertByScore(Tail(sorted), c)

RECURSIVE SortByScore(_, _)
SortByScore(cands, sorted) ==
    IF cands = <<>> THEN sorted
    ELSE SortByScore(Tail(cands), InsertByScore(sorted, Head(cands)))

NoLibrary == [id |-> <<>>, title |-> <<>>]

\* the test of line 330 with > for >=
MeetsFloor_Strict(score) == score.num > SEMANTIC_FLOOR * score.den

\* line 330: best.score >= SEMANTIC_FLOOR
MeetsFloor(score) == score.num >= SEMANTIC_FLOOR * score.den

buildMatchResult(libraries, target) ==
    IF libraries = <<>>
    THEN [found |-> FALSE, library |-> NoLibrary, score |-> Score(0, 1), tier |-> "none",
          candidates |-> <<>>]
    ELSE
    LET normalizedTarget == trim(toLowerCase(target))
        candidates == SortByScore([k \in DOMAIN libraries |->
                                      [lib |-> libraries[k],
                                       score |-> LibScore(libraries[k], normalizedTarget)]],
                                  <<>>)
        best == candidates[1]
    IN  IF \E k \in DOMAIN libraries : toLowerCase(libraries[k].title) = normalizedTarget
        THEN [found |-> TRUE, library |-> LastWithTitle(libraries, normalizedTarget),
              score |-> Score(100, 1), tier |-> "exact", candidates |-> <<>>]
        ELSE IF \E k \in DOMAIN libraries : RepoName(libraries[k]) = normalizedTarget
        THEN [found |-> TRUE, library |-> LastWithRepo(libraries, normalizedTarget),
              score |-> Score(100, 1), tier |-> "exact", candidates |-> <<>>]
        ELSE IF MeetsFloor(best.score)
        THEN [found |-> TRUE, library |-> best.lib, score |-> best.score,
              tier |-> "semantic", candidates |-> candidates]
        ELSE [found |-> FALSE, library |-> NoLibrary, score |-> best.score,
              tier |-> "semantic", candidates |-> candidates]

\* The libraries of a search result and the targets asked for.
LibraryPool ==
    {[id |-> <<"/", "f", "b", "/", "r", "e", "a", "c", "t">>,
      title |-> <<"R", "e", "a", "c", "t">>],
     [id |-> <<"/", "p", "/", "P", "r", "e", "a", "c", "t">>,
      title |-> <<"P", "r", "e", "a", "c", "t", " ", "X">>],
     [id |-> <<"/", "x", "/", "r", "e", "d", "u", "x">>,
      title |-> <<"R", "e", "a", "c", "t">>],
     [id |-> <<"v", "u", "e">>,
      title |-> <<"V", "u", "e", ".", "j", "s">>]}

Targets ==
    {<<" ", "R", "E", "A", "C", "T", " ">>, <<"p", "r", "e", "a", "c", "t">>,
     <<"r", "e", "d", "u", "x">>, <<"V", "U", "E">>, <<"r", "e", "a", "x", "x">>,
     <<"r", "e", "x", "x", "x">>, <<"v", "u", "e", "j", "s">>,
     <<"/", "f", "b", "/", "r", "e", "a", "c", "t">>, <<>>}

LibraryLists == UNION {[1..n -> LibraryPool] : n \in 0..MaxLibs}

InitMatch ==
    /\ guardOff = FALSE
    /\ InitPipeline
    /\ vIn \in {[libraries |-> l, target |-> t] : l \in LibraryLists, t \in Targets}
    /\ vOut = [tier |-> "unset"]

RunMatch ==
    /\ vOut.tier = "unset"
    /\ vOut' = buildMatchResult(vIn.libraries, vIn.target)
    /\ UNCHANGED <<guardOff, calls, call, pipe, hist, cacheManifest, cacheManifestPath,
                   manifestFile, files, reply, vIn, storeVars>>

SpecMatch == InitMatch /\ [][RunMatch]_vars

(***************************************************************************)
(* The calls of getStores and of the ask_docs_agent tool.                  *)
(***************************************************************************)
References == {Undefined, "openai", "nope"}

AskArgs == {[query |-> "How does it work?", reference |-> r, target |-> t] :
                r \in References, t \in {Undefined, "openai"}}

NextStores ==
    \/ \E o \in DOMAIN ops, forceRefresh \in BOOLEAN : GetStores(o, forceRefresh)
    \/ \E o \in DOMAIN ops, args \in AskArgs : AskDocs(o, args)
    \/ \E o \in DOMAIN ops : FetchStoresDone(o)
    \/ \E o \in DOMAIN ops : FetchStoresFail(o)
    \/ \E o \in DOMAIN ops : Return(o)
    \/ \E d \in TickSizes : Tick(d)
    \/ StoresSynced

SpecStores == InitBatch /\ [][NextStores]_vars

(***************************************************************************)
(* The fetch_site handler, index.ts lines 208-217: the tool's text and its *)
(* error flag.  The input schema (lines 52-69) admits one URL or a list of *)
(* 1 to 10.                                                                *)
(***************************************************************************)
Includes(hay, needle) ==
    \E k \in 0..(Len(hay) - Len(needle)) : SubSeq(hay, k + 1, k + Len(needle)) = needle

\* result.startsWith("Error "): of the fixed pieces a text can begin with, only
\* "Error fetching" does; "Error: Maximum 10 URLs per batch." has a colon there
StartsWithError(text) == text # <<>> /\ Head(text).k = "Error fetching"

\* result.includes("Error fetching"): in a fixed piece or in the characters a
\* piece interpolates
IncludesErrorFetching(text) ==
    \E j \in DOMAIN text :
        \/ text[j].k = "Error fetching"
        \/ Includes(text[j].s, <<"E", "r", "r", "o", "r", " ", "f", "e", "t", "c", "h",
                                 "i", "n", "g">>)

\* line 215
isError(result) == StartsWithError(result) \/ IncludesErrorFetching(result)

HandlerRequests == {<<U_A>>, <<U_B>>, <<U_A, U_B>>}

HandlerAnswers == {[status |-> 200, location |-> "", body |-> b] : b \in {H1, E1, J1}}

NextHandler ==
    \/ \E urls \in HandlerRequests, refresh \in BOOLEAN : FetchSite(urls, FALSE, refresh)
    \/ \E i \in DOMAIN pipe : LoadRead(i)
    \/ \E i \in DOMAIN pipe : LoadDone(i)
    \/ \E i \in DOMAIN pipe : CacheRead(i)
    \/ \E i \in DOMAIN pipe, ans \in BatchRobotsAnswers : RobotsRespond(i, ans)
    \/ \E i \in DOMAIN pipe : Validate(i)
    \/ \E i \in DOMAIN pipe : ClientError(i)
    \/ \E i \in DOMAIN pipe, res \in HandlerAnswers : ClientResponse(i, res)
    \/ \E i \in DOMAIN pipe : WriteOpen(i)
    \/ \E i \in DOMAIN pipe : WriteDone(i)
    \/ \E i \in DOMAIN pipe : SaveOpen(i)
    \/ \E i \in DOMAIN pipe : SaveDone(i)
    \/ Reply

SpecHandler == InitBatch /\ [][NextHandler]_vars

(***************************************************************************)
(* sanitizeDirname on a title and a URL of its own, and the paths lines    *)
(* 429-431 and 442 build from the name.                                    *)
(***************************************************************************)
MaxTitle == 101

Titles ==
    {<<>>,
     <<"H", "e", "l", "l", "o", " ", " ", "W", "o", "r", "l", "d">>,
     <<" ", "A", " ", "-", "-", " ", "B", "!", " ">>,
     <<"!", "!", "!">>,
     <<".", ".", "/", ".", ".", "/", "e", "t", "c", "/", "p", "w">>,
     <<".", ".">>,
     <<"C", ":", "\\", "x">>,
     [k \in 1..MaxTitle |-> "a"],
     [k \in 1..MaxTitle |-> IF k = MaxTitle - 1 THEN " " ELSE "b"]}

DirnameUrls == {U_A, U_ROOT, U_FILE, U_DOT, U_SIGNS, U_SLASH, "not a url"}

InitDirname ==
    /\ guardOff = FALSE
    /\ InitPipeline
    /\ vIn \in {[title |-> t, url |-> u, now |-> n] :
                    t \in Titles, u \in DirnameUrls, n \in {7, 1700000000}}
    /\ vOut = [dirname |-> <<>>, done |-> FALSE]

RunDirname ==
    LET dirname == sanitizeDirname(vIn.title, vIn.url, vIn.now) IN
    /\ ~vOut.done
    /\ vOut' = [dirname |-> dirname, done |-> TRUE, dirPath |-> DirPath(dirname),
                imagesDir |-> ImagesPath(dirname)]
    /\ UNCHANGED <<guardOff, calls, call, pipe, hist, cacheManifest, cacheManifestPath,
                   manifestFile, files, reply, vIn, storeVars>>

SpecDirname == InitDirname /\ [][RunDirname]_vars

(***************************************************************************)
(* Properties of the cache and of refresh.                                 *)
(***************************************************************************)
\* C1: when the manifest read by a request with refresh=false holds an entry for the
\* URL whose CONTENT.md exists, the execution issues no HTTP request at all, its
\* result is a success marked fromCache, and the answer of a single-URL call carries
\* the "Served from cache" line.
CacheHitServedWithoutRequest ==
    \A i \in DOMAIN pipe :
        (call.state # "none" /\ ~call.refresh /\ hist[i].sawHit) =>
            /\ hist[i].http = {}
            /\ NReq(hist[i]) = 0
            /\ pipe[i].pc \in {"loaded", "cacheRead", "done"}
            /\ pipe[i].pc = "done" => pipe[i].result.success /\ pipe[i].result.fromCache
            /\ (call.state = "replied" /\ Len(call.urls) = 1) =>
                   \E k \in DOMAIN reply.text :
                       reply.text[k] =
                           Seg("Served from cache (use refresh=true to re-fetch)", <<>>, 0)

\* C1: a call with refresh=false has been answered from an entry stored by an earlier call
CacheHitAnswered ==
    /\ call.state = "replied" /\ ~call.refresh /\ calls = 2
    /\ \E i \in DOMAIN pipe :
           /\ hist[i].sawHit
           /\ pipe[i].result.fromCache
           /\ reply.results[i].fromCache

\* C2: when a call fetched URL u as HTML and stored it, the next call for u with
\* refresh=false returns content equal to the content the first call returned.
RefetchReturnsSameContent ==
    \A i \in DOMAIN pipe :
        (/\ call.state = "running" /\ ~call.refresh
         /\ pipe[i].pc = "done" /\ pipe[i].result.success
         /\ reply.urls = <<pipe[i].url>> /\ Len(reply.results) = 1
         /\ reply.results[1].success /\ reply.results[1].contentPath # <<>>) =>
            pipe[i].result.message = reply.results[1].message

\* C3: an execution with refresh=true never ends with a cache-served result, and when
\* it ends in success it has made a page request and the manifest on disk holds an
\* entry for the URL carrying the time of this fetch.
RefreshFetchesAndOverwrites ==
    \A i \in DOMAIN pipe :
        (call.refresh /\ pipe[i].pc = "done") =>
            /\ ~pipe[i].result.fromCache
            /\ pipe[i].result.success =>
                   /\ NReq(hist[i]) >= 1
                   /\ manifestFile.st = "ok"
                   /\ pipe[i].url \in DOMAIN manifestFile.entries
                   /\ manifestFile.entries[pipe[i].url].fetched = calls

\* C3, amended: an execution with refresh=true never reads the cache and never ends
\* with a cache-served result; when it ends in success it has made a page request,
\* and if the page was HTML it has set the entry of the URL to the metadata of this
\* fetch, which the manifest file of a single-URL call then holds, while a page that
\* is not HTML leaves the manifest file as the execution read it.
RefreshRefetchesAndStoresHtml ==
    \A i \in DOMAIN pipe :
        (call.refresh /\ pipe[i].pc = "done") =>
            /\ ~pipe[i].result.fromCache
            /\ pipe[i].cached = NoEntry
            /\ pipe[i].result.success =>
                   /\ NReq(hist[i]) >= 1
                   /\ IF isHtmlContent(hist[i].body)
                      THEN /\ hist[i].stored.fetched = calls
                           /\ hist[i].stored.title = TitleOrUntitled(hist[i].body.title)
                           /\ hist[i].stored.contentPath = pipe[i].result.contentPath
                           /\ hist[i].stored.charCount = TextLen(pipe[i].result.message)
                           /\ Len(call.urls) = 1 =>
                                  /\ manifestFile.st = "ok"
                                  /\ pipe[i].url \in DOMAIN manifestFile.entries
                                  /\ manifestFile.entries[pipe[i].url] = hist[i].stored
                      ELSE /\ hist[i].stored = NoEntry
                           /\ Len(call.urls) = 1 => manifestFile = pipe[i].snap

\* C3: a call with refresh=true ended in success for a URL that had an entry of an
\* earlier fetch, and the manifest file now holds the entry of the new fetch
RefreshOverwroteEntry ==
    \E i \in DOMAIN pipe :
        /\ call.refresh /\ pipe[i].pc = "done" /\ pipe[i].result.success
        /\ pipe[i].snap.st = "ok"
        /\ pipe[i].url \in DOMAIN pipe[i].snap.entries
        /\ pipe[i].snap.entries[pipe[i].url].fetched < calls
        /\ manifestFile.st = "ok"
        /\ pipe[i].url \in DOMAIN manifestFile.entries
        /\ manifestFile.entries[pipe[i].url].fetched = calls

(***************************************************************************)
(* Properties of the validator, the redirects and robots.txt.              *)
(***************************************************************************)
\* C4: with the guard disabled validateUrlSafety never fails; with it enabled, for an
\* http or https URL it fails when the hostname is a loopback literal, and otherwise,
\* when the lookup answers, it fails exactly when some resolved address lies in 10/8,
\* 172.16/12, 192.168/16, 127/8, 169.254/16 or is ::1.
PrivateTargetsRejected ==
    LET url == ParseUrl(vIn.url)
        Blocked(a) ==
            \/ /\ a.family = 4
               /\ \/ a.parts[1] = 10
                  \/ a.parts[1] = 172 /\ a.parts[2] \in 16..31
                  \/ a.parts[1] = 192 /\ a.parts[2] = 168
                  \/ a.parts[1] = 127
                  \/ a.parts[1] = 169 /\ a.parts[2] = 254
            \/ a.family = 6 /\ a.text = "::1"
    IN  vOut # "none" =>
            IF vIn.disable THEN vOut = "ok"
            ELSE (url.ok /\ url.protocol \in {"http:", "https:"}) =>
                     IF url.hostname \in {"localhost", "127.0.0.1", "[::1]"}
                     THEN vOut # "ok"
                     ELSE vIn.dns.ok =>
                              (vOut # "ok" <=> \E a \in vIn.dns.addrs : Blocked(a))

\* C5: every request sent to a redirect target goes to a URL validateUrlSafety had
\* accepted in this execution, and an execution in which a redirect target was
\* rejected does not end in success.
RedirectTargetsValidated ==
    \A i \in DOMAIN pipe :
        /\ \A r \in hist[i].http : r.kind = "redirect" => r.validated
        /\ (pipe[i].pc = "done" /\ hist[i].rejected # {}) => ~pipe[i].result.success

\* C6: the body of a 3xx answer is never taken as the page, and an execution that
\* followed more than MAX_REDIRECTS redirects does not end in success.
LongRedirectChainFails ==
    \A i \in DOMAIN pipe :
        /\ hist[i].body # R0
        /\ (pipe[i].pc = "done" /\ pipe[i].result.success) => hist[i].hops <= MAX_REDIRECTS

\* C7: every HTTP request of an execution, the robots.txt request included, goes out
\* after validateUrlSafety accepted its URL, and an execution whose URL was rejected
\* has sent no request.
ValidatedBeforeAnyRequest ==
    \A i \in DOMAIN pipe :
        /\ \A r \in hist[i].http : r.validated
        /\ pipe[i].url \in hist[i].rejected => hist[i].http = {}

\* C8: once robots.txt was retrieved and holds Disallow: / in a record for User-agent *,
\* the execution has failed with the robots error and has made no page request.
DisallowAllBlocksFetch ==
    \A i \in DOMAIN pipe :
        hist[i].robots = "disallow-all" =>
            /\ pipe[i].pc = "done"
            /\ ~pipe[i].result.success
            /\ pipe[i].result.message = ErrText(E_ROBOTS)
            /\ NReq(hist[i]) = 0

\* C9: when the robots.txt request ended in an error, a timeout, a 4xx or 5xx status
\* or a text without any User-agent or Disallow line, checkRobotsTxt did not throw and
\* the execution went on into fetchWithLimits: once past the validation it has sent
\* the page request or the validator has rejected the URL.
RobotsFailureNeverBlocks ==
    \A i \in DOMAIN pipe :
        hist[i].robots \in {"unavailable", "malformed"} =>
            /\ hist[i].threwAt # "robots"
            /\ pipe[i].pc # "robots"
            /\ pipe[i].pc # "validate" =>
                   \/ NReq(hist[i]) >= 1
                   \/ pipe[i].url \in hist[i].rejected

\* C9: a page was fetched with success after robots.txt could not be obtained or parsed
FetchedAfterRobotsFailure ==
    \E i \in DOMAIN pipe :
        /\ hist[i].robots \in {"unavailable", "malformed"}
        /\ pipe[i].pc = "done" /\ pipe[i].result.success
        /\ NReq(hist[i]) >= 1

(***************************************************************************)
(* Properties of the batch limit.                                          *)
(***************************************************************************)
\* C10: a call with more than 10 URLs is answered with the batch error and no
\* processSingleUrl execution exists for it: nothing is read, resolved or requested.
OversizedBatchRejected ==
    (call.state # "none" /\ Len(call.urls) > 10) =>
        /\ call.state = "replied"
        /\ reply.text = BatchErrorText(Len(call.urls))
        /\ reply.results = <<>>
        /\ pipe = <<>>
        /\ hist = <<>>

\* C10: a call with 11 URLs has been answered
OversizedBatchAnswered ==
    /\ call.state = "replied"
    /\ Len(call.urls) = 11
    /\ reply.urls = call.urls

(***************************************************************************)
(* Properties of batches.                                                  *)
(***************************************************************************)
\* C11: the answer of a batch holds exactly one result per URL, in input order, with
\* Total = number of URLs = Successful + Failed; the result of each URL is the one its
\* own execution produced from what it read and was answered itself (its own error if
\* it failed, its own page if it fetched, its own manifest entry if it was served from
\* the cache), and a failed execution has stored nothing.
BatchResultsIndependent ==
    LET SegN(k) == (CHOOSE x \in Range(reply.text) : x.k = k).n
        HasSeg(k) == \E x \in Range(reply.text) : x.k = k
        ok == Cardinality({i \in DOMAIN pipe : pipe[i].result.success})
        Own(i) ==
            LET h == hist[i]
                p == pipe[i]
                r == pipe[i].result
            IN  /\ r.success <=> h.threwAt = "none"
                /\ h.threwAt = "validate" =>
                       /\ r.message = ErrText(validateUrlSafety(guardOff, p.url, Resolve(p.url)))
                       /\ NReq(h) = 0
                /\ h.threwAt = "fetch" => r.message \in {ErrText(E_NETWORK), ErrText(E_TOO_LARGE)}
                /\ ~r.success => h.stored = NoEntry /\ p.dirname = <<>>
                /\ (r.success /\ r.fromCache) =>
                       /\ p.snap.st = "ok" /\ p.url \in DOMAIN p.snap.entries
                       /\ r.contentPath = p.snap.entries[p.url].contentPath
                       /\ r.title = p.snap.entries[p.url].title
                /\ (r.success /\ ~r.fromCache) =>
                       IF isHtmlContent(h.body)
                       THEN /\ r.message = Truncate(h.body, CHARACTER_LIMIT)
                            /\ r.title = TitleOrUntitled(h.body.title)
                       ELSE r.message = RawContent(h.body, CHARACTER_LIMIT)
    IN  /\ \A i \in DOMAIN pipe : pipe[i].url = call.urls[i]
        /\ \A i \in DOMAIN pipe : pipe[i].pc = "done" => Own(i)
        /\ (call.state = "replied" /\ Len(call.urls) \in 2..MAX_BATCH) =>
               /\ reply.urls = call.urls
               /\ Len(reply.results) = Len(call.urls)
               /\ \A i \in DOMAIN pipe : reply.results[i] = pipe[i].result
               /\ SegN("Total:") = Len(call.urls)
               /\ SegN("Successful:") = ok
               /\ HasSeg("Failed:") <=> ok < Len(call.urls)
               /\ HasSeg("Failed:") => SegN("Failed:") = Len(call.urls) - ok
               /\ reply.text = BatchText(reply.results, call.urls)

\* C11: a batch was answered in which one URL failed and the other succeeded
BatchWithOneFailureAnswered ==
    /\ call.state = "replied" /\ Len(call.urls) = 2
    /\ \E i, j \in DOMAIN pipe :
           /\ ~reply.results[i].success
           /\ reply.results[j].success

(***************************************************************************)
(* Properties of the page content.                                         *)
(***************************************************************************)
\* C12: an execution that was answered a page of more than 2000000 bytes has failed
\* with a payload error, and no execution ends in success with a body over the
\* ceiling, whole or cut.
OversizedBodyFails ==
    \A i \in DOMAIN pipe :
        /\ hist[i].body.bytes > 2000000 =>
               /\ pipe[i].pc = "done"
               /\ ~pipe[i].result.success
               /\ pipe[i].result.message \in {ErrText(E_MAX_CONTENT), ErrText(E_TOO_LARGE)}
               /\ hist[i].stored = NoEntry
        /\ (pipe[i].pc = "done" /\ pipe[i].result.success /\ ~pipe[i].result.fromCache) =>
               hist[i].body.bytes <= 2000000

\* C12: an execution was answered an oversized page
OversizedBodyAnswered ==
    \E i \in DOMAIN pipe : hist[i].body = BIG /\ pipe[i].pc = "done"

\* C13: for a fetched HTML page whose markdown has n characters, the content is the
\* first CHARACTER_LIMIT characters followed by the notice stating n - CHARACTER_LIMIT
\* when n > CHARACTER_LIMIT, and the n characters of the markdown alone otherwise.
TruncatedWithNotice ==
    vOut.pc # "none" =>
        LET n == vIn.body.mdLen
            L == 25000
        IN  /\ vOut.pc = "writeMd"
            /\ IF n > L
               THEN /\ Len(vOut.content) = 2
                    /\ vOut.content[1] = [k |-> "md", s |-> <<vIn.body.id>>, n |-> L]
                    /\ vOut.content[2].k = "[... Content truncated. n characters remaining ...]"
                    /\ vOut.content[2].n = n - L
               ELSE vOut.content = <<[k |-> "md", s |-> <<vIn.body.id>>, n |-> n]>>

\* C13: a page of exactly CHARACTER_LIMIT characters went through unmodified
ExtractedAtLimit ==
    /\ vOut.pc # "none"
    /\ vIn.body.mdLen = CHARACTER_LIMIT
    /\ vOut.content = Markdown(vIn.body)

(***************************************************************************)
(* Properties of the cache under I/O failures.                             *)
(***************************************************************************)
\* C15: an execution that found an entry for its URL in the manifest and could not
\* read the CONTENT.md the entry points to is not failed by that: it goes on to the
\* robots check and the fetch, it never answers from the cache, and it ends as an
\* execution without an entry ends (a fresh success, or the failure of a later step).
MissingFileFallsBack ==
    \A i \in DOMAIN pipe :
        "file" \in hist[i].faults =>
            /\ pipe[i].pc # "cacheRead"
            /\ hist[i].http # {}
            /\ pipe[i].pc = "done" =>
                   LET r == pipe[i].result IN
                   /\ r.success <=> hist[i].threwAt = "none"
                   /\ r.success =>
                          /\ ~r.fromCache
                          /\ r.message \in {pipe[i].content, RawContent(hist[i].body, CHARACTER_LIMIT)}

\* C15 witness: an execution whose entry pointed to a removed file has fetched the
\* page again and ended in success
MissingFileRefetched ==
    \E i \in DOMAIN pipe :
        /\ "file" \in hist[i].faults
        /\ pipe[i].pc = "done" /\ pipe[i].result.success
        /\ \E r \in hist[i].http : r.kind = "page"

\* C16: an execution whose read of the manifest failed goes on as a cache miss, with
\* the robots check and a live fetch, and does not fail for that; an execution whose
\* write of the manifest failed, CONTENT.md being written, still reports its URL as a
\* success with the fetched content.
CacheFailuresNotFatal ==
    \A i \in DOMAIN pipe :
        LET r == pipe[i].result IN
        /\ "read" \in hist[i].faults /\ pipe[i].pc \notin {"load", "loaded"} =>
               /\ pipe[i].cached = NoEntry
               /\ hist[i].http # {}
               /\ pipe[i].pc = "done" =>
                      /\ r.success <=> hist[i].threwAt = "none"
                      /\ r.success => ~r.fromCache
        /\ "save" \in hist[i].faults =>
               /\ pipe[i].pc = "done"
               /\ r.success /\ ~r.fromCache
               /\ r.message = pipe[i].content
               /\ r.contentPath = DirPath(pipe[i].dirname)

\* C16 witness: one execution whose read of the manifest failed and whose write of
\* the manifest failed has ended in success
BothCacheFailuresSurvived ==
    \E i \in DOMAIN pipe :
        /\ {"read", "save"} \subseteq hist[i].faults
        /\ pipe[i].pc = "done" /\ pipe[i].result.success

(***************************************************************************)
(* Properties of responses that are not HTML.                              *)
(***************************************************************************)
\* C17: an execution that received a response whose content type is not text/html
\* and whose body does not look like HTML ends at once in success; its message is
\* the note followed by the raw body cut to CHARACTER_LIMIT; it names no content
\* path, and the step that receives the response writes no file and no manifest
\* entry, nor does any later step of that execution.
NonHtmlReturnedRaw ==
    /\ [](\A i \in DOMAIN pipe :
             LET b == hist[i].body IN
             (b # NoBody /\ hist[i].threwAt = "none"
                /\ ~IncludesTextHtml(b.ctype) /\ ~b.looksHtml) =>
                 /\ pipe[i].pc = "done"
                 /\ pipe[i].result.success /\ ~pipe[i].result.fromCache
                 /\ pipe[i].result.message =
                        <<Seg("Content type cannot be converted to markdown. Raw content:",
                              <<b.ctype>>, 0),
                          Seg("raw", <<b.id>>, Min(b.bytes, CHARACTER_LIMIT))>>
                 /\ pipe[i].result.contentPath = <<>>
                 /\ pipe[i].result.imageCount = 0
                 /\ pipe[i].dirname = <<>>
                 /\ hist[i].stored = NoEntry)
    /\ [][\A i \in DOMAIN pipe :
             (i \in DOMAIN pipe' /\ hist[i].body = NoBody /\ hist'[i].body # NoBody
                /\ ~IncludesTextHtml(hist'[i].body.ctype) /\ ~hist'[i].body.looksHtml) =>
                 /\ files' = files
                 /\ manifestFile' = manifestFile
                 /\ cacheManifest' = cacheManifest]_vars

\* C17 witness: a text file longer than CHARACTER_LIMIT was returned raw, cut to the
\* ceiling
LongTextReturnedRaw ==
    \E i \in DOMAIN pipe :
        /\ pipe[i].pc = "done" /\ pipe[i].result.success
        /\ hist[i].body = T1
        /\ TextLen(pipe[i].result.message) = CHARACTER_LIMIT

(***************************************************************************)
(* Properties of the images.                                               *)
(***************************************************************************)
\* C14: when some image of a page failed (its request failed, it was too large, or it
\* could not be decoded or re-encoded), the execution still ends in success, the
\* failed images are dropped, and the images that did not fail are the ones saved.
ImageFailureSwallowed ==
    \A i \in DOMAIN pipe :
        (pipe[i].pc = "done" /\ \E k \in DOMAIN hist[i].imgs : hist[i].imgs[k] # "ok") =>
            /\ pipe[i].result.success
            /\ pipe[i].result.imageCount = CountOk(hist[i].imgs)
            /\ CountOk(hist[i].imgs) > 0 =>
                   /\ ImagesPath(pipe[i].dirname) \in DOMAIN files
                   /\ \A k \in DOMAIN hist[i].imgs :
                          hist[i].imgs[k] = "ok" =>
                              \E f \in files[ImagesPath(pipe[i].dirname)] :
                                  f[2] = ImgNames(hist[i].body)[k]

(***************************************************************************)
(* Properties of library matching.                                         *)
(***************************************************************************)
\* C18: when the lowercased, trimmed target equals the lowercased title or the
\* repository name of some library of the search result, such a library is returned
\* with score 100 and tier exact, whatever the fuzzy scores are; otherwise the library
\* returned is one with the highest fuzzy score, and it is returned exactly when that
\* score is at least SEMANTIC_FLOOR: below the floor no library is returned.
ExactBeforeFuzzy ==
    (vOut.tier # "unset" /\ vIn.libraries # <<>>) =>
        LET libs == vIn.libraries
            t == toLowerCase(trim(vIn.target))
            Named(lib) == toLowerCase(lib.title) = t
                          \/ toLowerCase(AfterLastSlash(lib.id)) = t
            Fuzzy(lib) == LibScore(lib, t)
            Top(lib) == \A k \in DOMAIN libs : ~ScoreGt(Fuzzy(libs[k]), Fuzzy(lib))
            topReaches == \E k \in DOMAIN libs :
                              /\ Top(libs[k])
                              /\ Fuzzy(libs[k]).num >= 60 * Fuzzy(libs[k]).den
        IN  IF \E k \in DOMAIN libs : Named(libs[k])
            THEN /\ vOut.found /\ vOut.tier = "exact"
                 /\ ScoreEq(vOut.score, Score(100, 1))
                 /\ \E k \in DOMAIN libs : libs[k] = vOut.library /\ Named(libs[k])
            ELSE /\ vOut.found <=> topReaches
                 /\ vOut.found =>
                        /\ \E k \in DOMAIN libs : libs[k] = vOut.library /\ Top(libs[k])
                        /\ ScoreEq(vOut.score, Fuzzy(vOut.library))
                        /\ vOut.tier # "exact"

\* C18 witness: the second library of the result was matched by name, the first having
\* a fuzzy score of its own, for a target given in capitals and padded with spaces
ExactMatchReturned ==
    /\ vOut.tier = "exact"
    /\ vIn.target = <<" ", "R", "E", "A", "C", "T", " ">>
    /\ Len(vIn.libraries) = 2
    /\ vOut.library = vIn.libraries[2]
    /\ vIn.libraries[1] # vIn.libraries[2]

(***************************************************************************)
(* Properties of the store list and of ask_docs_agent.                     *)
(***************************************************************************)
\* C19: a call of getStores sends the list request exactly when there is no cached
\* list, when it was called with forceRefresh, or when the cached list is at least
\* 300000 ms old; in every other call it returns the cached list as it is, and no
\* list request is sent at any other moment of a call.
StoreListCachedForTtl ==
    [][\A o \in DOMAIN ops :
          /\ (ops[o].pc = "idle" /\ ops'[o].pc # "idle"
                /\ ops'[o].result.kind # "missing") =>
                 LET needed == \/ storeCache = NoCache
                               \/ ops'[o].force
                               \/ clock - storeCache.timestamp >= 300000
                 IN  /\ ops'[o].listed <=> needed
                     /\ ~needed => (ops'[o].cache = storeCache /\ storeCache' = storeCache)
          /\ (ops'[o].listed /\ ~ops[o].listed) => ops[o].pc = "idle"]_vars

\* C19 witness: a call of getStores got the cached list, 299999 ms after it was
\* fetched, without a list request
CachedListReturned ==
    \E o \in DOMAIN ops :
        /\ ops[o].pc = "done" /\ ops[o].kind = "stores"
        /\ ~ops[o].listed
        /\ ops[o].cache = storeCache
        /\ clock - storeCache.timestamp = 299999

\* C20: an ask_docs_agent call whose reference (or, without one, whose target) is the
\* display name of a store of the store list queries that store and is not answered
\* that the reference was not found.
KnownReferenceAnswered ==
    \A o \in DOMAIN ops :
        (ops[o].kind = "ask" /\ ops[o].pc = "done" /\ ops[o].result.kind # "missing"
           /\ ops[o].params.reference \in DOMAIN ops[o].cache.stores) =>
            /\ ops[o].result.kind # "notFound"
            /\ ops[o].cache.stores[ops[o].params.reference] \in gemini.queries

(***************************************************************************)
(* Properties of the manifest store.                                       *)
(***************************************************************************)
\* C21: the store is not synchronised between the executions of a call: a save
\* serialises the module-level manifest as it stands at that moment and replaces the
\* whole file with it, whatever the file held (last writer wins on the whole file), so
\* that two executions for different URLs can both report a fresh success while the
\* file keeps the entry of one of them only (the state LostManifestEntry).
WholeFileLastWriterWins ==
    [][\A i \in DOMAIN pipe :
          i \in DOMAIN pipe' =>
              /\ (pipe[i].pc = "save" /\ pipe'[i].pc = "save2") =>
                     pipe'[i].toWrite = cacheManifest
              /\ (pipe[i].pc = "save2" /\ pipe'[i].pc = "done") =>
                     manifestFile' = [st |-> "ok", entries |-> pipe[i].toWrite]]_vars

\* C21 witness: both executions of a call for two URLs have reported a fresh success,
\* and the manifest on disk holds the entry of one of them only
LostManifestEntry ==
    /\ Len(pipe) = 2
    /\ pipe[1].url # pipe[2].url
    /\ \A i \in DOMAIN pipe :
           /\ pipe[i].pc = "done" /\ pipe[i].result.success /\ ~pipe[i].result.fromCache
           /\ hist[i].stored # NoEntry
    /\ manifestFile.st = "ok"
    /\ \E i \in DOMAIN pipe : pipe[i].url \notin DOMAIN manifestFile.entries
    /\ \E i \in DOMAIN pipe : pipe[i].url \in DOMAIN manifestFile.entries

\* C22: when the executions run one at a time and the manifest file was readable at
\* the load, a successful store for a URL sets or overwrites the key of that URL only:
\* afterwards the file holds the new entry for it and, for every other URL, exactly
\* the entry the file held before.
StoreSetsOnlyItsKey ==
    \A i \in DOMAIN pipe :
        (Len(pipe) = 1 /\ pipe[i].pc = "done" /\ hist[i].stored # NoEntry
           /\ pipe[i].snap.st = "ok") =>
            LET before == pipe[i].snap.entries
                u == pipe[i].url
            IN  /\ manifestFile.st = "ok"
                /\ DOMAIN manifestFile.entries = DOMAIN before \cup {u}
                /\ manifestFile.entries[u] = hist[i].stored
                /\ \A v \in DOMAIN before \ {u} : manifestFile.entries[v] = before[v]

\* C22 witness: a store for one URL has ended while the file held the entry of another
SecondUrlStored ==
    \E i \in DOMAIN pipe :
        /\ Len(pipe) = 1 /\ pipe[i].pc = "done" /\ hist[i].stored # NoEntry
        /\ pipe[i].snap.st = "ok"
        /\ DOMAIN pipe[i].snap.entries \ {pipe[i].url} # {}
        /\ DOMAIN manifestFile.entries = {U_A, U_B}

(***************************************************************************)
(* Properties of the image count.                                          *)
(***************************************************************************)
RECURSIVE SumOfCounts(_, _)
SumOfCounts(rs, S) ==
    IF S = {} THEN 0
    ELSE LET i == CHOOSE x \in S : TRUE
         IN  rs[i].imageCount + SumOfCounts(rs, S \ {i})

HasAlnum(s) ==
    \E k \in DOMAIN s : s[k] \in Range(LowerChars) \cup Range(UpperChars) \cup Range(DigitChars)

\* the last non-empty piece of a path cut at its slashes
LastPathPiece(pathname) ==
    LET ends == {k \in DOMAIN pathname : pathname[k] # "/"}
        e == CHOOSE k \in ends : \A j \in ends : j <= k
        starts == {k \in 1..e : \A j \in k..e : pathname[j] # "/"}
        b == CHOOSE k \in starts : \A j \in starts : k <= j
    IN  IF ends = {} THEN <<>> ELSE SubSeq(pathname, b, e)

\* C24: the directory name is not empty, has at most 100 characters, all of them
\* lowercase letters, digits or hyphens, and no two hyphens in a row; with a title
\* that is not empty it is made of the title's letters and digits; and it is the
\* placeholder untitled-<time> only when neither the title nor the last non-empty path
\* segment of the URL has a letter or digit to give.
DirnameWellFormed ==
    vOut.done =>
        LET d == vOut.dirname
            placeholder == <<"u", "n", "t", "i", "t", "l", "e", "d", "-">> \o Digits(vIn.now)
            url == ParseUrl(vIn.url)
        IN  /\ d # <<>> /\ Len(d) <= 100
            /\ \A k \in DOMAIN d :
                   d[k] \in Range(LowerChars) \cup Range(DigitChars) \cup {"-"}
            /\ \A k \in 1..(Len(d) - 1) : ~(d[k] = "-" /\ d[k + 1] = "-")
            /\ (vIn.title # <<>> /\ d # placeholder) =>
                   \A k \in DOMAIN d :
                       d[k] = "-" \/ \E j \in DOMAIN vIn.title : LowerChar(vIn.title[j]) = d[k]
            /\ d = placeholder =>
                   /\ ~HasAlnum(vIn.title)
                   /\ ~(url.ok /\ HasAlnum(LastPathPiece(url.pathname)))

\* C30: the directory name has no path separator and no dot and is not empty, so the
\* directory of CONTENT.md is a direct child of the content directory and the images
\* directory is the directory images inside it.
WritesStayInsideContentDir ==
    vOut.done =>
        /\ vOut.dirname # <<>>
        /\ \A k \in DOMAIN vOut.dirname : vOut.dirname[k] \notin {"/", "\\", "."}
        /\ vOut.dirPath = <<DEFAULT_CONTENT_DIR, vOut.dirname>>
        /\ vOut.imagesDir = <<DEFAULT_CONTENT_DIR, vOut.dirname, "images">>

\* C30 witness: a title made of dots and slashes has given a directory name
TraversalTitleNamed ==
    /\ vOut.done
    /\ vIn.title = <<".", ".", "/", ".", ".", "/", "e", "t", "c", "/", "p", "w">>
    /\ vOut.dirname = <<"e", "t", "c", "p", "w">>

(***************************************************************************)
(* Properties of the stored pages.                                         *)
(***************************************************************************)
\* C25: every entry of the manifest file names a directory of its own, and the
\* CONTENT.md in that directory, when it is there, is the page of the entry's URL:
\* its frontmatter carries that URL. Stated between calls, when no write is under way.
EntriesPointToOwnContent ==
    (call.state # "running" /\ manifestFile.st = "ok") =>
        \A u \in DOMAIN manifestFile.entries :
            LET e == manifestFile.entries[u] IN
            /\ \A v \in DOMAIN manifestFile.entries :
                   v # u => manifestFile.entries[v].contentPath # e.contentPath
            /\ e.contentPath \in DOMAIN files =>
                   \E k \in DOMAIN files[e.contentPath] :
                       files[e.contentPath][k] = Seg("url:", <<u>>, 0)

\* C26: the manifest a store writes holds every entry the manifest file held for
\* the other URLs, whatever the load before it met.
StoreKeepsOtherEntries ==
    [][\A i \in DOMAIN pipe :
           (/\ i \in DOMAIN pipe'
            /\ pipe[i].pc = "save" /\ pipe'[i].pc = "save2"
            /\ manifestFile.st = "ok") =>
               \A u \in DOMAIN manifestFile.entries \ {pipe[i].url} :
                   /\ u \in DOMAIN pipe'[i].toWrite
                   /\ pipe'[i].toWrite[u] = manifestFile.entries[u]]_vars

\* the same of the stores whose load read the file
StoreKeepsOtherEntriesAfterGoodLoad ==
    [][\A i \in DOMAIN pipe :
           (/\ i \in DOMAIN pipe'
            /\ pipe[i].pc = "save" /\ pipe'[i].pc = "save2"
            /\ "read" \notin hist[i].faults
            /\ manifestFile.st = "ok") =>
               \A u \in DOMAIN manifestFile.entries \ {pipe[i].url} :
                   /\ u \in DOMAIN pipe'[i].toWrite
                   /\ pipe'[i].toWrite[u] = manifestFile.entries[u]]_vars

\* the pipeline has ended in failure
EndedInFailure(p) == p.pc = "done" /\ ~p.result.success

\* C27: a pipeline that ends in failure never reached the directory name of line 429,
\* has set no manifest entry and has serialised no manifest; every step that changes
\* a file or the manifest file is a step of a pipeline in its write stage that does
\* not end in failure by it; and after a single-URL call that failed the manifest
\* file is what its load read.
FailureLeavesStoreAlone ==
    /\ [](\A i \in DOMAIN pipe :
              EndedInFailure(pipe[i]) =>
                  /\ pipe[i].dirname = <<>>
                  /\ hist[i].stored = NoEntry
                  /\ pipe[i].toWrite = NoEntries
                  /\ Len(call.urls) = 1 => manifestFile = pipe[i].snap)
    /\ [][(files' # files \/ manifestFile' # manifestFile) =>
              \E i \in DOMAIN pipe :
                  /\ i \in DOMAIN pipe'
                  /\ pipe[i].pc \in {"writeMd", "writeMd2", "save", "save2"}
                  /\ pipe'[i] # pipe[i]
                  /\ ~EndedInFailure(pipe'[i])]_vars

\* C27 witness: a refresh of a stored page has failed in the image stage, and the
\* entry and the CONTENT.md of the earlier fetch are there
RefreshFailedOverStoredPage ==
    \E i \in DOMAIN pipe :
        /\ EndedInFailure(pipe[i]) /\ call.refresh
        /\ hist[i].threwAt = "images"
        /\ manifestFile.st = "ok"
        /\ pipe[i].url \in DOMAIN manifestFile.entries
        /\ manifestFile.entries[pipe[i].url].contentPath \in DOMAIN files
        /\ files[manifestFile.entries[pipe[i].url].contentPath] # <<>>

(***************************************************************************)
(* Properties of the page fetcher and of the tool's answer.                *)
(***************************************************************************)
\* C28: one call of the page fetcher sends at most MAX_REDIRECTS + 1 HTTP requests,
\* whatever chain of redirects the servers answer with.
FetcherRequestsBounded ==
    \A i \in DOMAIN hist : NReq(hist[i]) <= MAX_REDIRECTS + 1

\* C29: the error flag of the fetch_site answer is set exactly when the request
\* failed: for one URL it is set when the execution failed and not set when it
\* succeeded, whatever the page says; for a batch in which every URL succeeded it
\* is not set.
ErrorFlagIffFailed ==
    (call.state = "replied" /\ reply.results # <<>>) =>
        /\ Len(reply.urls) = 1 => (isError(reply.text) <=> ~reply.results[1].success)
        /\ (Len(reply.urls) > 1 /\ \A i \in DOMAIN reply.results : reply.results[i].success)
               => ~isError(reply.text)

\* the flag is set for every failed single-URL request
FailedSingleFlagged ==
    (call.state = "replied" /\ reply.results # <<>> /\ Len(reply.urls) = 1
     /\ ~reply.results[1].success) => isError(reply.text)

====
